---- MODULE Spec2Model ----
(***************************************************************************)
(* PrintSplitWeb: the Job Runtime (Bull queues, worker, HTTP handlers) and *)
(* the Split Engine (ManifoldSplitter.splitSTL) as state machines.         *)
(*                                                                         *)
(* Spec          the Job Runtime: submission, worker processors, DELETE,   *)
(*               force-fail, timeout, stall recovery, restart signal.      *)
(* SpecEngine    one call of splitSTL with an instrumented CSG kernel.     *)
(* SpecOrder     the engine on larger grids.                               *)
(* SpecSplitJob  one Split job with its engine run step by step.           *)
(* SpecStore     the Split processor and the results bucket.               *)
(* SpecPosition  GET /api/jobs/:id/position.                               *)
(* SpecProcess   POST /api/process.                                        *)
(* SpecRetention removeOnComplete / removeOnFail.                          *)
(* SpecFleet     the restart signal with several workers.                  *)
(* SpecGate, SpecGrid, SpecCodec  pure functions of the engine.            *)
(***************************************************************************)
EXTENDS Integers, Sequences, FiniteSets, TLC

\* ---------------------------------------------------------------- bounds
MaxJobs == 2        \* jobs submitted in one behaviour
MaxDelete == 1      \* DELETE /api/jobs/:id requests in one behaviour
MaxEvents == 2      \* admin requests and faults in one behaviour: force-fail,
                    \* restart signal, worker kill, hard timeout
CONCURRENCY == 1    \* WORKER_CONCURRENCY of the deployment (default 2)
MaxPosition == 2    \* GET /api/jobs/:id/position requests in one behaviour
MaxRetJobs == 2     \* jobs that finish in one behaviour of SpecRetention
MaxDays == 15       \* days the clock of SpecRetention runs
MaxFleet == 3       \* worker processes of SpecFleet (docker-compose --scale)
MaxSignals == 2     \* restart signals in one behaviour of SpecFleet

\* ------------------------------------------------------- program constants
NumWorkers == 1             \* worker containers (docker-compose --scale worker=1)
SplitAttempts == 1          \* processingQueue defaultJobOptions.attempts
RepairAttempts == 2         \* repairQueue defaultJobOptions.attempts
SplitMaxStalledCount == 1   \* processingQueue settings.maxStalledCount
RepairMaxStalledCount == 2  \* repairQueue settings.maxStalledCount
DefaultAvgTime == 120       \* avgProcessingTime, seconds, of the position handler
CompletedAge == 2           \* removeOnComplete.age, in days (48 * 3600 s)
CompletedCount == 1000      \* removeOnComplete.count
FailedAge == 7              \* removeOnFail.age, in days (7 * 24 * 3600 s)

JobIds == 1..MaxJobs
Workers == 1..NumWorkers
Queues == {"split", "repair"}

\* Positions of a processor invocation (worker/index.ts).  A Split processor
\* walks Ckpt1 .. finalize; a Repair processor walks download, process, upload.
Checkpoints == {"ckpt1", "ckpt2", "ckpt3"}
LatePcs == {"upload", "zip", "finalize"}
Pcs == {"idle", "download", "process"} \cup Checkpoints \cup LatePcs

\* average processing times, in seconds, measured over completed jobs
MeasuredAvgTimes == {60}

JobStates == {"none", "waiting", "delayed", "active", "completed", "failed", "removed"}

CancelledMsg == "Job was cancelled"
ForceMsg == "Force-failed by admin: job was stuck"
StalledMsg == "job stalled more than allowable limit"
TimeoutMsg == "Promise timed out"
StorageMsg == "storage error"
EngineMsg == "STL processing failed"
\* splitSTL: the result without parts, and the prefix its exception handler
\* puts before the message of a caught error
EmptyMsg == "No valid parts were generated. Model may be too small or outside the cutting bounds."
FailedPrefix == "Manifold processing failed: "
\* errors raised inside splitSTL: by the CSG kernel when its WASM memory is
\* exhausted, by the status check of the input solid, by the file system
OutOfBoundsMsg == "offset is out of bounds"
NotManifoldMsg == "Input mesh is not a valid manifold: NotManifold"
\* the binding's error for a call on a solid that was deleted
DeletedMsg == "Cannot pass deleted object as a pointer of type Manifold*"
FileMsg == "ENOENT: no such file or directory"
\* the worker's own messages for an exception of splitSTL
FriendlyMsg == "STL file is too large or complex for processing. Try reducing model complexity, splitting manually, or using smaller dimensions."
ErrorPrefix == "Manifold processing error: "

VARIABLES
  \* --- broker (Redis / Bull) state
  queueOf,        \* job id -> "none" | "split" | "repair"
  state,          \* job id -> Bull state of the job
  wait,           \* queue -> the waiting list, head is fetched next
  cancelled,      \* job id -> data._cancelled
  failedReason,   \* job id -> failedReason ("" when unset)
  returnvalue,    \* job id -> TRUE when a return value is recorded
  attemptsMade,   \* job id -> attemptsMade
  stalledCounter, \* job id -> stalledCounter
  lock,           \* job id -> 0, or the worker whose token holds the job lock
  restartKey,     \* TRUE while the key worker:restart exists
  \* --- worker processes
  worker,         \* worker -> "running" | "closing" | "exited"
  tpc,            \* job id -> position of the processor invocation for the job
  tworker,        \* job id -> worker that runs (ran last) the processor
  tslot,          \* job id -> TRUE while the invocation occupies a Bull slot
  wdirs,          \* set of <<worker, job>>: working directories on disk
  progress,       \* job id -> percent of the progress last published
  \* --- HTTP handlers in flight and their answers
  dpc,            \* job id -> position of the DELETE handler for that id
  dresp,          \* job id -> last answer of DELETE ("none", "200", "404", "500")
  dEffect,        \* job id -> what that DELETE did: "none", "flagged", "removed"
  dAt,            \* job id -> state of the job when that DELETE acted
  ffResp,         \* last answer of force-fail (0 when none, 200, 404)
  posReq,         \* the GET /api/jobs/:id/position handler in flight and
                  \* its last answer
  \* --- history
  flaggedAt,      \* job id -> when _cancelled was first set on the active job:
                  \*           "never", "early" (its worker had not passed the
                  \*           third checkpoint) or "late"
  used,           \* environment events used so far
  \* --- Split Engine (SpecEngine): the locals of one call of splitSTL and
  \*     the instrumented CSG kernel
  eng,
  \* --- pure functions of the engine, each applied to bounded inputs
  gate,           \* SpecGate: one candidate ladder and the boundary gate
  grid,           \* SpecGrid: calculateBalancedSplit and the cutting boxes of
                  \*           one axis
  codec,          \* SpecCodec: an STL file, decoded, encoded, decoded again
  \* --- further handlers and resources, each with a specification of its own
  post,           \* SpecProcess: the POST /api/process handler, its request
                  \*              body and its answer
  ret,            \* SpecRetention: the clock, and the finished jobs of the
                  \*                processing queue with their finish times
  store,          \* SpecStore: the results bucket, and per job the parts of
                  \*            its processor, its ZIP and its recorded result
  fleet           \* SpecFleet: the key worker:restart and several worker
                  \*            processes polling it

\* the Job Runtime but the published progress
jvars == <<queueOf, state, wait, cancelled, failedReason, returnvalue,
           attemptsMade, stalledCounter, lock, restartKey, worker, tpc,
           tworker, tslot, wdirs, dpc, dresp, dEffect, dAt, ffResp,
           flaggedAt, used, posReq>>
rvars == <<jvars, progress>>
evars == <<eng>>
hvars == <<post, ret, store, fleet>>
fvars == <<gate, grid, codec, hvars>>
vars == <<rvars, evars, fvars>>

\* ------------------------------------------------------------ queue policy
\* processingQueue / repairQueue options
Attempts(q) == IF q = "split" THEN SplitAttempts ELSE RepairAttempts

MaxStalledCount(q) == IF q = "split" THEN SplitMaxStalledCount ELSE RepairMaxStalledCount

\* Bull Job.moveToFailed: the attempt is counted, and the job is retried
\* (moved to delayed, the queue has a backoff) while attempts remain.
FailedTarget(j) ==
  IF attemptsMade[j] + 1 < Attempts(queueOf[j]) THEN "delayed" ELSE "failed"

\* Bull moveStalledJobsToWait: the stalled counter is incremented; the job is
\* failed only when the counter exceeds maxStalledCount, else re-queued.
StalledTarget(j) ==
  IF stalledCounter[j] + 1 > MaxStalledCount(queueOf[j]) THEN "failed" ELSE "waiting"

\* jobs a worker is processing in one queue (slots of queue.process(n, ...))
SlotsUsed(w, q) ==
  {j \in JobIds : tpc[j] # "idle" /\ tworker[j] = w /\ tslot[j] /\ queueOf[j] = q}

\* processor invocations running in worker w, both queues
Processing(w) == {j \in JobIds : tpc[j] # "idle" /\ tworker[j] = w}

\* a mutated removal: the list is left as it is
RemoveNothing(s, j) == s

Remove(s, j) == SelectSeq(s, LAMBDA x : x # j)

\* no position request yet
NoPosition ==
  [pc |-> "idle", id |-> 0, requests |-> 0, waitingJobs |-> <<>>,
   activeJobs |-> 0, answer |-> [status |-> 0]]

\* ------------------------------------------------------------------- Init
RuntimeInit ==
  /\ queueOf = [j \in JobIds |-> "none"]
  /\ state = [j \in JobIds |-> "none"]
  /\ wait = [q \in Queues |-> <<>>]
  /\ cancelled = [j \in JobIds |-> FALSE]
  /\ failedReason = [j \in JobIds |-> ""]
  /\ returnvalue = [j \in JobIds |-> FALSE]
  /\ attemptsMade = [j \in JobIds |-> 0]
  /\ stalledCounter = [j \in JobIds |-> 0]
  /\ lock = [j \in JobIds |-> 0]
  /\ restartKey = FALSE
  /\ worker = [w \in Workers |-> "running"]
  /\ tpc = [j \in JobIds |-> "idle"]
  /\ tworker = [j \in JobIds |-> 0]
  /\ tslot = [j \in JobIds |-> FALSE]
  /\ wdirs = {}
  /\ progress = [j \in JobIds |-> 0]
  /\ posReq = NoPosition
  /\ dpc = [j \in JobIds |-> "idle"]
  /\ dresp = [j \in JobIds |-> "none"]
  /\ dEffect = [j \in JobIds |-> "none"]
  /\ dAt = [j \in JobIds |-> "none"]
  /\ ffResp = 0
  /\ flaggedAt = [j \in JobIds |-> "never"]
  /\ used = [e \in {"submit", "delete", "event"} |-> 0]



\* =========================================================== Split Engine
\* manifold-splitter.ts, splitSTL.  Volumes are integers in units of
\* 1/ExpectedVolume of the expected volume of a full hole.
MaxSections == 2     \* sections per axis
MaxCells == 2        \* grid cells of one call
MaxSamples == 2      \* probe samples of one footprint probe
ExpectedVolume == 10 \* expectedVolume, in volume units

MinVolumeRatioTenths == 8   \* minVolumeRatio = 0.8
ExcellentRatioTenths == 9   \* removalRatio < 0.9 asks for the depth check
MinDepthRatioTenths == 6    \* depthRatio < 0.6 rejects

SectionChoices ==
  {s \in (1..MaxSections) \X (1..MaxSections) \X (1..MaxSections) :
     s[1] * s[2] * s[3] <= MaxCells}

Spacings == {"sparse", "normal", "dense"}

\* The (axis, cut, cell) triples of the hole-carving loops in loop order:
\* X cuts i = 1..sections.x-1 with cells (y, z), then Y cuts with cells (x, z),
\* then Z cuts with cells (x, y).
AxisCuts(axis, nCuts, n1, n2) ==
  [t \in 1..(nCuts * n1 * n2) |->
     [axis |-> axis,
      i |-> 1 + ((t - 1) \div (n1 * n2)),
      c1 |-> ((t - 1) \div n2) % n1,
      c2 |-> (t - 1) % n2]]

CutCells(s) ==
  AxisCuts("x", s[1] - 1, s[2], s[3]) \o
  AxisCuts("y", s[2] - 1, s[1], s[3]) \o
  AxisCuts("z", s[3] - 1, s[1], s[2])

\* a mutated cell order: z outermost, x innermost
GridCellsZFirst(s) ==
  [t \in 1..(s[1] * s[2] * s[3]) |->
     <<((t - 1) % s[1]) + 1,
       (((t - 1) \div s[1]) % s[2]) + 1,
       ((t - 1) \div (s[1] * s[2])) + 1>>]

\* The cells of the splitting loops in loop order: x outermost, z innermost.
GridCells(s) ==
  [t \in 1..(s[1] * s[2] * s[3]) |->
     <<((t - 1) \div (s[2] * s[3])) + 1,
       (((t - 1) \div s[3]) % s[2]) + 1,
       ((t - 1) % s[3]) + 1>>]

\* strategicPositions: 4 corners + centre; + 4 edge midpoints (normal, dense);
\* + 4 one-third points (dense).  size is "small" (< 2 x edgeInset on a side),
\* "medium" (>= 2 x) or "large" (>= 4 x edgeInset on both sides).
LadderSize(spacing, size) ==
  IF size = "small" THEN 0
  ELSE IF spacing = "sparse" \/ size = "medium" THEN 5
  ELSE IF spacing = "normal" THEN 9
  ELSE 13

\* Manifold.cylinder(..).translate(..).rotate(..).translate(..): the solids
\* one cylinder expression creates (no rotate on the Z axis)
CylinderChain(axis) == IF axis = "z" THEN 3 ELSE 4

\* removalRatio >= minVolumeRatio
RemovalRatioOk(removed) == removed * 10 >= MinVolumeRatioTenths * ExpectedVolume

\* removalRatio < 0.9: the borderline case
Borderline(removed) == removed * 10 < ExcellentRatioTenths * ExpectedVolume

\* depthRatio = halfDepthRemoved / volumeRemoved; depthRatio < 0.6
DepthRejected(removed, half) == half * 10 < MinDepthRatioTenths * removed

\* a mutated gate: the depth check of the borderline case is dropped
ShouldKeepNoDepthCheck(removed, half) == RemovalRatioOk(removed)

\* the candidate test of the X, Y and Z cut loops: keep the trial solid?
ShouldKeep(removed, half) ==
  /\ RemovalRatioOk(removed)
  /\ ~(Borderline(removed) /\ DepthRejected(removed, half))

NoEval ==
  [axis |-> "none", accepted |-> FALSE, removed |-> 0, half |-> -1,
   cylinders |-> 0, trials |-> 0, unreleased |-> 0]

EngineInit ==
  eng = [pc |-> "idle", sections |-> <<1, 1, 1>>, holes |-> FALSE,
         spacing |-> "normal", manifold |-> "null", manifoldWithHoles |-> "null",
         live |-> 0, doubleDelete |-> FALSE, useAfterDelete |-> FALSE,
         ci |-> 1, ns |-> 0, foundAny |-> FALSE, k |-> 1, nCand |-> 0,
         lastEval |-> NoEval, xi |-> 1, parts |-> <<>>, result |-> "none",
         qualified |-> <<>>, error |-> "", job |-> 0, delivered |-> FALSE]

\* no POST /api/process request yet
NoPost == [pc |-> "idle", status |-> 0, jobId |-> 0]

\* day 0, nothing has finished
NoRetention ==
  [now |-> 0, jobs |-> [j \in 1..MaxRetJobs |->
                        [in |-> "none", at |-> 0, present |-> FALSE]]]

\* an empty results bucket; no processor has a result yet
NoStore ==
  [objects |-> {},
   parts |-> [j \in JobIds |-> <<>>],
   zip |-> [j \in JobIds |-> [from |-> <<>>, onDisk |-> FALSE]],
   returned |-> [j \in JobIds |-> <<>>]]

\* the scaled workers are running, no restart was asked for
NoFleet ==
  [key |-> FALSE, signals |-> 0, deleted |-> FALSE,
   pc |-> [w \in 1..MaxFleet |-> "polling"],
   got |-> [w \in 1..MaxFleet |-> FALSE]]

HandlersIdle ==
  /\ post = NoPost
  /\ ret = NoRetention
  /\ store = NoStore
  /\ fleet = NoFleet

\* the pure-function checks are idle in the Job Runtime and the Split Engine
FunctionsIdle ==
  /\ gate = [pc |-> "idle"]
  /\ grid = [pc |-> "idle"]
  /\ codec = [pc |-> "idle"]
  /\ HandlersIdle

Init == RuntimeInit /\ EngineInit /\ FunctionsIdle

\* ----------------------------------------------------------- submission
\* POST /api/process (q = "split") and POST /api/repair (q = "repair"):
\* a fresh job id, the job is added to the queue in state waiting.
addJob(q) ==
  /\ used["submit"] < MaxJobs
  /\ LET j == used["submit"] + 1 IN
       /\ queueOf' = [queueOf EXCEPT ![j] = q]
       /\ state' = [state EXCEPT ![j] = "waiting"]
       /\ wait' = [wait EXCEPT ![q] = Append(@, j)]
  /\ used' = [used EXCEPT !["submit"] = @ + 1]
  /\ UNCHANGED <<cancelled, failedReason, returnvalue, attemptsMade,
                 stalledCounter, lock, restartKey, worker, tpc, tworker, tslot,
                 wdirs, dpc, dresp, dEffect, dAt, ffResp, flaggedAt>>
  /\ UNCHANGED <<progress, posReq>>

Submit(q) ==
  /\ addJob(q)
  /\ UNCHANGED <<evars, fvars>>

\* ------------------------------------------------- processor invocations
\* what a processor step leaves alone
TaskFrame ==
  UNCHANGED <<queueOf, wait, cancelled, stalledCounter, restartKey, worker,
              tworker, dpc, dresp, dEffect, dAt, ffResp, flaggedAt,
              used>>

\* the job is still active under the lock token of the worker that runs it
Held(j) == state[j] = "active" /\ lock[j] = tworker[j]

\* the processor moves on to position p
Advance(j, p) ==
  /\ tpc' = [tpc EXCEPT ![j] = p]
  /\ UNCHANGED <<state, failedReason, returnvalue, attemptsMade, lock, tslot, wdirs>>

\* the processor throws: its catch block removes the working directory and
\* rethrows; Bull then moves the job to failed (or retries it) if this worker
\* still holds it.
Throws(j, reason) ==
  /\ tpc' = [tpc EXCEPT ![j] = "idle"]
  /\ tslot' = [tslot EXCEPT ![j] = FALSE]
  /\ wdirs' = wdirs \ {<<tworker[j], j>>}
  /\ IF Held(j)
       THEN /\ state' = [state EXCEPT ![j] = FailedTarget(j)]
            /\ failedReason' = [failedReason EXCEPT ![j] = reason]
            /\ attemptsMade' = [attemptsMade EXCEPT ![j] = @ + 1]
            /\ lock' = [lock EXCEPT ![j] = 0]
       ELSE UNCHANGED <<state, failedReason, attemptsMade, lock>>
  /\ UNCHANGED returnvalue

\* the processor removes the working directory and returns its result; Bull
\* moves the job to completed if this worker still holds it.
Returns(j) ==
  /\ tpc' = [tpc EXCEPT ![j] = "idle"]
  /\ tslot' = [tslot EXCEPT ![j] = FALSE]
  /\ wdirs' = wdirs \ {<<tworker[j], j>>}
  /\ IF Held(j)
       THEN /\ state' = [state EXCEPT ![j] = "completed"]
            /\ returnvalue' = [returnvalue EXCEPT ![j] = TRUE]
            /\ lock' = [lock EXCEPT ![j] = 0]
       ELSE UNCHANGED <<state, returnvalue, lock>>
  /\ UNCHANGED <<failedReason, attemptsMade>>

\* queue.process(CONCURRENCY, ...): worker w fetches the head of the waiting
\* list of queue q when one of its CONCURRENCY slots for q is free, and the
\* processor starts: it creates the working directory.  The restart handler
\* closes processingQueue only, so a closing worker still fetches Repair jobs.
\* (A retried job is fetched once its earlier invocation has ended.)
Dequeue(w, q) ==
  /\ worker[w] = "running" \/ (q = "repair" /\ worker[w] = "closing")
  /\ wait[q] # <<>>
  /\ Cardinality(SlotsUsed(w, q)) < CONCURRENCY
  /\ LET j == Head(wait[q]) IN
       /\ tpc[j] = "idle"
       /\ wait' = [wait EXCEPT ![q] = Tail(@)]
       /\ state' = [state EXCEPT ![j] = "active"]
       /\ lock' = [lock EXCEPT ![j] = w]
       /\ tpc' = [tpc EXCEPT ![j] = IF q = "split" THEN "ckpt1" ELSE "download"]
       /\ tworker' = [tworker EXCEPT ![j] = w]
       /\ tslot' = [tslot EXCEPT ![j] = TRUE]
       /\ wdirs' = wdirs \cup {<<w, j>>}
  /\ UNCHANGED <<queueOf, cancelled, failedReason, returnvalue, attemptsMade,
                 stalledCounter, restartKey, worker, dpc, dresp, dEffect, dAt,
                 ffResp, flaggedAt, used>>
  /\ UNCHANGED <<progress, posReq, evars, fvars>>

NextOf(p) == CASE p = "ckpt1" -> "download"
               [] p = "ckpt2" -> "process"
               [] p = "ckpt3" -> "upload"
               [] OTHER -> p

\* a mutated checkpoint: the flag is not tested
checkCancellationBlind(j) ==
  /\ tpc[j] \in Checkpoints
  /\ Advance(j, NextOf(tpc[j]))
  /\ TaskFrame
  /\ UNCHANGED <<progress, posReq, evars, fvars>>

\* checkCancellation at one of the three checkpoints of the Split processor:
\* the job is read again from the broker and _cancelled is tested.
checkCancellation(j) ==
  /\ tpc[j] \in Checkpoints
  /\ IF state[j] # "removed" /\ cancelled[j]
       THEN Throws(j, CancelledMsg)
       ELSE Advance(j, NextOf(tpc[j]))
  /\ TaskFrame
  /\ UNCHANGED <<progress, posReq, evars, fvars>>

\* a mutated publication: nothing is written
updateProgressLost(j, percent) == UNCHANGED progress

\* updateProgress(percent, message): job.progress({percent, message})
updateProgress(j, percent) == progress' = [progress EXCEPT ![j] = percent]

\* updateProgress(10) of the Split processor, updateProgress(5) of the Repair
\* processor, then storage.downloadFile: succeeds or throws
Download(j, ok) ==
  /\ tpc[j] = "download"
  /\ updateProgress(j, IF queueOf[j] = "split" THEN 10 ELSE 5)
  /\ IF ok
       THEN Advance(j, IF queueOf[j] = "split" THEN "ckpt2" ELSE "process")
       ELSE Throws(j, StorageMsg)
  /\ TaskFrame
  /\ UNCHANGED <<posReq, evars, fvars>>

\* String.prototype.includes
Includes(s, needle) ==
  \E i \in 1..(Len(s) - Len(needle) + 1) :
    SubSeq(s, i, i + Len(needle) - 1) = needle

\* the results splitSTL returns: the success result with its parts, the
\* result without parts, the result of its exception handler
SplitResults ==
  {[success |-> TRUE, parts |-> <<(<<1, 1, 1>>)>>, total_parts |-> 1],
   [success |-> FALSE, error |-> EmptyMsg]}
  \cup {[success |-> FALSE, error |-> FailedPrefix \o OutOfBoundsMsg]}

\* does the promise of splitSTL reject?  Its whole body is inside try / catch
\* and its cleanup has a handler of its own: it never does.
SplitSTLRejects == {FALSE}

\* the handler of an exception of splitSTL (catch (manifoldError))
manifoldError(errorMessage) ==
  IF Includes(errorMessage, OutOfBoundsMsg) \/ Includes(errorMessage, "RangeError")
    THEN FriendlyMsg
    ELSE ErrorPrefix \o errorMessage

\* result.error || 'STL processing failed'
ErrorOf(r) ==
  IF "error" \in DOMAIN r /\ r.error # "" THEN r.error ELSE EngineMsg

\* await splitter.splitSTL(..) in the Split processor, and what follows it:
\* a rejection (r is then the error) is mapped by the handler and thrown; a
\* result without success or without parts is thrown with its error; else
\* the processor goes on to the third checkpoint
ProcessSplitStep(j, rejected, r) ==
  /\ tpc[j] = "process"
  /\ queueOf[j] = "split"
  /\ IF rejected THEN Throws(j, manifoldError(r.error))
     ELSE IF ~r.success \/ "parts" \notin DOMAIN r THEN Throws(j, ErrorOf(r))
     ELSE Advance(j, "ckpt3")
  /\ TaskFrame

\* updateProgress(20) and the call of splitSTL taken as one step
ProcessSplit(j, rejected, r) ==
  /\ updateProgress(j, 20)
  /\ ProcessSplitStep(j, rejected, r)
  /\ UNCHANGED <<posReq, evars, fvars>>

\* splitter.repairSTL for a Repair job: repaired (upload follows), nothing to
\* upload (the processor returns its report), or an exception
ProcessRepair(j, out) ==
  /\ tpc[j] = "process"
  /\ queueOf[j] = "repair"
  /\ updateProgress(j, IF out = "repaired" THEN 90 ELSE 10)
  /\ CASE out = "repaired" -> Advance(j, "upload")
       [] out = "report" -> Returns(j)
       [] OTHER -> Throws(j, EngineMsg)
  /\ TaskFrame
  /\ UNCHANGED <<posReq, evars, fvars>>

\* upload of the parts (Split) or of the repaired file (Repair): the effect
\* on the broker and the processor
UploadPartsStep(j, ok) ==
  /\ tpc[j] = "upload"
  /\ IF queueOf[j] = "split"
       THEN updateProgress(j, IF ok THEN 90 ELSE 75)
       ELSE UNCHANGED progress
  /\ IF ~ok THEN Throws(j, StorageMsg)
     ELSE IF queueOf[j] = "split" THEN Advance(j, "zip") ELSE Returns(j)
  /\ TaskFrame

UploadParts(j, ok) ==
  /\ UploadPartsStep(j, ok)
  /\ UNCHANGED <<posReq, evars, fvars>>

\* createZipArchive and the upload of all-parts.zip
ZipUploadStep(j, ok) ==
  /\ tpc[j] = "zip"
  /\ IF ok THEN updateProgress(j, 95) ELSE UNCHANGED progress
  /\ IF ok THEN Advance(j, "finalize") ELSE Throws(j, StorageMsg)
  /\ TaskFrame

ZipUpload(j, ok) ==
  /\ ZipUploadStep(j, ok)
  /\ UNCHANGED <<posReq, evars, fvars>>

\* fs.rm(workDir) and return jobResult
FinalizeStep(j) ==
  /\ tpc[j] = "finalize"
  /\ Returns(j)
  /\ TaskFrame
  /\ UNCHANGED progress

Finalize(j) ==
  /\ FinalizeStep(j)
  /\ UNCHANGED <<posReq, evars, fvars>>

\* ------------------------------------------------ timeout, stall, retry
\* defaultJobOptions.timeout of processingQueue: Bull fails the job when the
\* processor has not settled in time and frees the slot; the processor itself
\* keeps running.
Timeout(j) ==
  /\ used["event"] < MaxEvents
  /\ queueOf[j] = "split"
  /\ tpc[j] # "idle"
  /\ tslot[j]
  /\ tslot' = [tslot EXCEPT ![j] = FALSE]
  /\ IF Held(j)
       THEN /\ state' = [state EXCEPT ![j] = FailedTarget(j)]
            /\ failedReason' = [failedReason EXCEPT ![j] = TimeoutMsg]
            /\ attemptsMade' = [attemptsMade EXCEPT ![j] = @ + 1]
            /\ lock' = [lock EXCEPT ![j] = 0]
       ELSE UNCHANGED <<state, failedReason, attemptsMade, lock>>
  /\ used' = [used EXCEPT !["event"] = @ + 1]
  /\ UNCHANGED <<queueOf, wait, cancelled, returnvalue, stalledCounter,
                 restartKey, worker, tpc, tworker, wdirs, dpc, dresp,
                 dEffect, dAt, ffResp, flaggedAt>>
  /\ UNCHANGED <<progress, posReq, evars, fvars>>

\* the processor invocations of worker w end with its process
Killed(w) ==
  /\ tpc' = [j \in JobIds |-> IF tworker[j] = w THEN "idle" ELSE tpc[j]]
  /\ tslot' = [j \in JobIds |-> IF tworker[j] = w THEN FALSE ELSE tslot[j]]

\* the worker process is killed (out of memory, SIGKILL): locks and working
\* directories stay behind
Crash(w) ==
  /\ used["event"] < MaxEvents
  /\ worker[w] # "exited"
  /\ worker' = [worker EXCEPT ![w] = "exited"]
  /\ Killed(w)
  /\ used' = [used EXCEPT !["event"] = @ + 1]
  /\ UNCHANGED <<queueOf, state, wait, cancelled, failedReason, returnvalue,
                 attemptsMade, stalledCounter, lock, restartKey, tworker, wdirs,
                 dpc, dresp, dEffect, dAt, ffResp, flaggedAt>>
  /\ UNCHANGED <<progress, posReq, evars, fvars>>

\* the supervisor (Docker restart policy) starts the worker again
Restart(w) ==
  /\ worker[w] = "exited"
  /\ worker' = [worker EXCEPT ![w] = "running"]
  /\ UNCHANGED <<queueOf, state, wait, cancelled, failedReason, returnvalue,
                 attemptsMade, stalledCounter, lock, restartKey, tpc, tworker,
                 tslot, wdirs, dpc, dresp, dEffect, dAt, ffResp, flaggedAt, used>>
  /\ UNCHANGED <<progress, posReq, evars, fvars>>

\* settings.lockDuration: the lock of a job expires when no live processor
\* renews it (lockRenewTime)
LockExpire(j) ==
  /\ lock[j] # 0
  /\ tpc[j] = "idle"
  /\ lock' = [lock EXCEPT ![j] = 0]
  /\ UNCHANGED <<queueOf, state, wait, cancelled, failedReason, returnvalue,
                 attemptsMade, stalledCounter, restartKey, worker, tpc, tworker,
                 tslot, wdirs, dpc, dresp, dEffect, dAt, ffResp, flaggedAt, used>>
  /\ UNCHANGED <<progress, posReq, evars, fvars>>

\* settings.stalledInterval / maxStalledCount: the stalled-job check of a
\* running worker finds an active job without lock
StalledCheck(j) ==
  /\ \E w \in Workers : worker[w] = "running"
  /\ state[j] = "active"
  /\ lock[j] = 0
  /\ stalledCounter' = [stalledCounter EXCEPT ![j] = @ + 1]
  /\ state' = [state EXCEPT ![j] = StalledTarget(j)]
  /\ IF StalledTarget(j) = "failed"
       THEN /\ failedReason' = [failedReason EXCEPT ![j] = StalledMsg]
            /\ UNCHANGED wait
       ELSE /\ wait' = [wait EXCEPT ![queueOf[j]] = <<j>> \o @]
            /\ UNCHANGED failedReason
  /\ UNCHANGED <<queueOf, cancelled, returnvalue, attemptsMade, lock,
                 restartKey, worker, tpc, tworker, tslot, wdirs, dpc, dresp,
                 dEffect, dAt, ffResp, flaggedAt, used>>
  /\ UNCHANGED <<progress, posReq, evars, fvars>>

\* backoff of repairQueue: a delayed job becomes waiting again
PromoteDelayed(j) ==
  /\ state[j] = "delayed"
  /\ state' = [state EXCEPT ![j] = "waiting"]
  /\ wait' = [wait EXCEPT ![queueOf[j]] = Append(@, j)]
  /\ UNCHANGED <<queueOf, cancelled, failedReason, returnvalue, attemptsMade,
                 stalledCounter, lock, restartKey, worker, tpc, tworker, tslot,
                 wdirs, dpc, dresp, dEffect, dAt, ffResp, flaggedAt,
                 used>>
  /\ UNCHANGED <<progress, posReq, evars, fvars>>

\* ------------------------------------------------------------ force-fail
\* POST /api/admin/jobs/:id/force-fail: forceFailJob, then forceFailRepairJob.
\* Either one calls job.moveToFailed(err, ignoreLock = true) on an active job
\* and answers 200; otherwise the route answers 404.
ForceFail(j) ==
  /\ used["event"] < MaxEvents
  /\ IF state[j] = "active"
       THEN /\ state' = [state EXCEPT ![j] = FailedTarget(j)]
            /\ failedReason' = [failedReason EXCEPT ![j] = ForceMsg]
            /\ attemptsMade' = [attemptsMade EXCEPT ![j] = @ + 1]
            /\ lock' = [lock EXCEPT ![j] = 0]
            /\ ffResp' = 200
       ELSE /\ ffResp' = 404
            /\ UNCHANGED <<state, failedReason, attemptsMade, lock>>
  /\ used' = [used EXCEPT !["event"] = @ + 1]
  /\ UNCHANGED <<queueOf, wait, cancelled, returnvalue, stalledCounter,
                 restartKey, worker, tpc, tworker, tslot, wdirs, dpc, dresp,
                 dEffect, dAt, flaggedAt>>
  /\ UNCHANGED <<progress, posReq, evars, fvars>>

\* ------------------------------------------------- DELETE /api/jobs/:id
\* the job exists in processingQueue (getJobStatus)
InSplitQueue(j) == queueOf[j] = "split" /\ state[j] \notin {"none", "removed"}

DeleteFrame ==
  UNCHANGED <<queueOf, failedReason, returnvalue, attemptsMade, stalledCounter,
              lock, restartKey, worker, tpc, tworker, tslot, wdirs, ffResp>>

\* getJobStatus(id): 404 when the job is not found
DeleteGetJob(j) ==
  /\ used["delete"] < MaxDelete
  /\ dpc[j] = "idle"
  /\ used' = [used EXCEPT !["delete"] = @ + 1]
  /\ IF InSplitQueue(j)
       THEN /\ dpc' = [dpc EXCEPT ![j] = "gotJob"]
            /\ dresp' = [dresp EXCEPT ![j] = "none"]
            /\ dEffect' = [dEffect EXCEPT ![j] = "none"]
            /\ dAt' = [dAt EXCEPT ![j] = "none"]
       ELSE /\ dresp' = [dresp EXCEPT ![j] = "404"]
            /\ dEffect' = [dEffect EXCEPT ![j] = "none"]
            /\ dAt' = [dAt EXCEPT ![j] = state[j]]
            /\ UNCHANGED dpc
  /\ UNCHANGED <<state, wait, cancelled, flaggedAt>>
  /\ DeleteFrame
  /\ UNCHANGED <<progress, posReq, evars, fvars>>

\* job.getState()
DeleteGetState(j) ==
  /\ dpc[j] = "gotJob"
  /\ dpc' = [dpc EXCEPT ![j] = IF state[j] = "active" THEN "sawActive" ELSE "sawOther"]
  /\ UNCHANGED <<state, wait, cancelled, flaggedAt, dresp, dEffect, dAt, used>>
  /\ DeleteFrame
  /\ UNCHANGED <<progress, posReq, evars, fvars>>

\* cancelJob(id): getJob, then job.remove(), which throws for a job that is
\* locked by a worker
cancelJob(j) ==
  IF ~InSplitQueue(j)
    THEN /\ dresp' = [dresp EXCEPT ![j] = "200"]
         /\ dEffect' = [dEffect EXCEPT ![j] = "none"]
         /\ UNCHANGED <<state, wait>>
  ELSE IF lock[j] # 0
    THEN /\ dresp' = [dresp EXCEPT ![j] = "500"]
         /\ dEffect' = [dEffect EXCEPT ![j] = "none"]
         /\ UNCHANGED <<state, wait>>
  ELSE /\ state' = [state EXCEPT ![j] = "removed"]
       /\ wait' = [wait EXCEPT !["split"] = Remove(@, j)]
       /\ dresp' = [dresp EXCEPT ![j] = "200"]
       /\ dEffect' = [dEffect EXCEPT ![j] = "removed"]

\* the branch taken on the state read: job.update(data with _cancelled = true)
\* for 'active', cancelJob(id) for every other state; then the answer
DeleteAct(j) ==
  /\ dpc[j] \in {"sawActive", "sawOther"}
  /\ dpc' = [dpc EXCEPT ![j] = "idle"]
  /\ dAt' = [dAt EXCEPT ![j] = state[j]]
  /\ IF dpc[j] = "sawActive"
       THEN /\ cancelled' = [cancelled EXCEPT ![j] = TRUE]
            /\ dresp' = [dresp EXCEPT ![j] = "200"]
            /\ dEffect' = [dEffect EXCEPT ![j] = "flagged"]
            /\ flaggedAt' = [flaggedAt EXCEPT ![j] =
                 IF state[j] = "active" /\ @ = "never"
                   THEN (IF tpc[j] \in LatePcs THEN "late" ELSE "early")
                   ELSE @]
            /\ UNCHANGED <<state, wait>>
       ELSE /\ cancelJob(j)
            /\ UNCHANGED <<cancelled, flaggedAt>>
  /\ UNCHANGED used
  /\ DeleteFrame
  /\ UNCHANGED <<progress, posReq, evars, fvars>>

\* --------------------------------------------------------- restart signal
\* POST /api/admin/worker/restart: setex worker:restart
RestartSignal ==
  /\ used["event"] < MaxEvents
  /\ restartKey' = TRUE
  /\ used' = [used EXCEPT !["event"] = @ + 1]
  /\ UNCHANGED <<queueOf, state, wait, cancelled, failedReason, returnvalue,
                 attemptsMade, stalledCounter, lock, worker, tpc, tworker, tslot,
                 wdirs, dpc, dresp, dEffect, dAt, ffResp, flaggedAt>>
  /\ UNCHANGED <<progress, posReq, evars, fvars>>

\* restartCheckInterval: the key is read and deleted, then
\* await processingQueue.close() - which waits for the Split jobs the worker
\* is processing - and process.exit(0)
restartCheckInterval(w) ==
  /\ worker[w] # "exited"
  /\ restartKey
  /\ restartKey' = FALSE
  /\ IF SlotsUsed(w, "split") = {}
       THEN /\ worker' = [worker EXCEPT ![w] = "exited"]
            /\ Killed(w)
       ELSE /\ worker' = [worker EXCEPT ![w] = "closing"]
            /\ UNCHANGED <<tpc, tslot>>
  /\ UNCHANGED <<queueOf, state, wait, cancelled, failedReason, returnvalue,
                 attemptsMade, stalledCounter, lock, tworker, wdirs, dpc,
                 dresp, dEffect, dAt, ffResp, flaggedAt, used>>
  /\ UNCHANGED <<progress, posReq, evars, fvars>>

\* processingQueue.close() resolves once no Split job is being processed;
\* process.exit(0) follows
CloseAndExit(w) ==
  /\ worker[w] = "closing"
  /\ SlotsUsed(w, "split") = {}
  /\ worker' = [worker EXCEPT ![w] = "exited"]
  /\ Killed(w)
  /\ UNCHANGED <<queueOf, state, wait, cancelled, failedReason, returnvalue,
                 attemptsMade, stalledCounter, lock, restartKey, tworker, wdirs,
                 dpc, dresp, dEffect, dAt, ffResp, flaggedAt, used>>
  /\ UNCHANGED <<progress, posReq, evars, fvars>>

\* -------------------------------------------- GET /api/jobs/:id/position
\* what a step of the position handler leaves alone
PositionFrame ==
  UNCHANGED <<queueOf, state, wait, cancelled, failedReason, returnvalue,
              attemptsMade, stalledCounter, lock, restartKey, worker, tpc,
              tworker, tslot, wdirs, dpc, dresp, dEffect, dAt, ffResp,
              flaggedAt, used, progress, evars, fvars>>

\* Math.round(a / b) for b > 0: the nearest integer, the larger one of two
RoundDiv(a, b) == (2 * a + b) \div (2 * b)

\* getJobStatus(id): the job of processingQueue, or the answer 404
PositionGetJob(j) ==
  /\ posReq.pc = "idle"
  /\ posReq.requests < MaxPosition
  /\ posReq' =
       IF queueOf[j] = "split" /\ state[j] \notin {"none", "removed"}
         THEN [posReq EXCEPT !.pc = "getState", !.id = j, !.requests = @ + 1]
         ELSE [posReq EXCEPT !.id = j, !.requests = @ + 1,
                             !.answer = [status |-> 404]]
  /\ PositionFrame

\* job.getState(): a job that is not waiting is answered without position
PositionGetState ==
  /\ posReq.pc = "getState"
  /\ posReq' =
       IF state[posReq.id] # "waiting"
         THEN [posReq EXCEPT !.pc = "idle",
                 !.answer = [status |-> 200, state |-> state[posReq.id],
                             position |-> "null", totalWaiting |-> 0,
                             estimatedWaitTime |-> 0]]
         ELSE [posReq EXCEPT !.pc = "getWaiting"]
  /\ PositionFrame

\* processingQueue.getWaiting(0, -1)
PositionGetWaiting ==
  /\ posReq.pc = "getWaiting"
  /\ posReq' = [posReq EXCEPT !.pc = "getActive", !.waitingJobs = wait["split"]]
  /\ PositionFrame

\* processingQueue.getActive()
PositionGetActive ==
  /\ posReq.pc = "getActive"
  /\ posReq' = [posReq EXCEPT !.pc = "getCompleted",
                  !.activeJobs = Cardinality({j \in JobIds :
                                   queueOf[j] = "split" /\ state[j] = "active"})]
  /\ PositionFrame

\* waitingJobs.findIndex(j => j.id === id): -1 when the job is not listed
FindIndex(waitingJobs, id) ==
  IF \E i \in 1..Len(waitingJobs) : waitingJobs[i] = id
    THEN (CHOOSE i \in 1..Len(waitingJobs) : waitingJobs[i] = id) - 1
    ELSE -1

\* processingQueue.getCompleted(0, 19), the average processing time (the
\* default, or measured seconds when a job has completed), and the answer
PositionAnswer(measured) ==
  /\ posReq.pc = "getCompleted"
  /\ LET completedJobs == {j \in JobIds : queueOf[j] = "split" /\ state[j] = "completed"}
         avgProcessingTime == IF completedJobs = {} THEN DefaultAvgTime ELSE measured
         position == FindIndex(posReq.waitingJobs, posReq.id) + 1
         totalWaiting == Len(posReq.waitingJobs)
         jobsAhead == position - 1
         concurrency == IF posReq.activeJobs > 0 THEN posReq.activeJobs ELSE 1
         estimatedWaitTime == RoundDiv(jobsAhead * avgProcessingTime, concurrency)
     IN posReq' = [posReq EXCEPT !.pc = "idle",
                     !.answer = [status |-> 200, state |-> "waiting",
                                 position |-> position,
                                 totalWaiting |-> totalWaiting,
                                 estimatedWaitTime |-> estimatedWaitTime]]
  /\ PositionFrame

\* Split jobs, their processors without faults, and position requests
NextPosition ==
  \/ Submit("split")
  \/ \E w \in Workers : Dequeue(w, "split")
  \/ \E j \in JobIds : checkCancellation(j)
  \/ \E j \in JobIds : Download(j, TRUE)
  \/ \E j \in JobIds, r \in SplitResults : ProcessSplit(j, FALSE, r)
  \/ \E j \in JobIds : UploadParts(j, TRUE)
  \/ \E j \in JobIds : ZipUpload(j, TRUE)
  \/ \E j \in JobIds : Finalize(j)
  \/ \E j \in JobIds : PositionGetJob(j)
  \/ PositionGetState
  \/ PositionGetWaiting
  \/ PositionGetActive
  \/ \E measured \in MeasuredAvgTimes : PositionAnswer(measured)

SpecPosition == Init /\ [][NextPosition]_vars

Next ==
  \/ \E q \in Queues : Submit(q)
  \/ \E w \in Workers, q \in Queues : Dequeue(w, q)
  \/ \E j \in JobIds : checkCancellation(j)
  \/ \E j \in JobIds, ok \in BOOLEAN : Download(j, ok)
  \/ \E j \in JobIds, rejected \in SplitSTLRejects, r \in SplitResults :
       ProcessSplit(j, rejected, r)
  \/ \E j \in JobIds, out \in {"repaired", "report", "throw"} : ProcessRepair(j, out)
  \/ \E j \in JobIds, ok \in BOOLEAN : UploadParts(j, ok)
  \/ \E j \in JobIds, ok \in BOOLEAN : ZipUpload(j, ok)
  \/ \E j \in JobIds : Finalize(j)
  \/ \E j \in JobIds : Timeout(j)
  \/ \E w \in Workers : Crash(w)
  \/ \E w \in Workers : Restart(w)
  \/ \E j \in JobIds : LockExpire(j)
  \/ \E j \in JobIds : StalledCheck(j)
  \/ \E j \in JobIds : PromoteDelayed(j)
  \/ \E j \in JobIds : ForceFail(j)
  \/ \E j \in JobIds : DeleteGetJob(j)
  \/ \E j \in JobIds : DeleteGetState(j)
  \/ \E j \in JobIds : DeleteAct(j)
  \/ RestartSignal
  \/ \E w \in Workers : restartCheckInterval(w)
  \/ \E w \in Workers : CloseAndExit(w)

Spec == Init /\ [][Next]_vars

\* ================================================= Split Engine, actions
\* the exception handler of splitSTL: a failure result, then the cleanup
Caught(e, message) ==
  [e EXCEPT !.pc = "finally", !.result = "failed",
            !.error = FailedPrefix \o message]

\* after a cut cell: the next one, or the splitting loops
NextCutCell(e) ==
  IF e.ci < Len(CutCells(e.sections))
    THEN [e EXCEPT !.pc = "probe", !.ci = @ + 1, !.ns = 0, !.foundAny = FALSE]
    ELSE [e EXCEPT !.pc = "cells"]

\* splitSTL is called: the options and the mesh (its grid) are inputs
SplitSTL(s, holes, spacing) ==
  /\ eng.pc = "idle"
  /\ eng' = [eng EXCEPT !.pc = "create", !.sections = s, !.holes = holes,
                        !.spacing = spacing]
  /\ UNCHANGED <<rvars, fvars>>

\* parseSTLFile, new Manifold(meshObj) and the status check.  parse throws
\* before any solid exists; a status other than NoError deletes the solid,
\* reads its status again for the message, and throws.  That second
\* status() is a call on a deleted solid: it returns the status read from
\* the released memory ("notManifold") or the binding throws
\* ("statusThrows"); either way the exception handler gets a message.
CreateManifold(out) ==
  /\ eng.pc = "create"
  /\ eng' = CASE out = "parseError" -> Caught(eng, FileMsg)
              [] out \in {"notManifold", "statusThrows"} ->
                   Caught([eng EXCEPT !.manifold = "deleted",
                                      !.useAfterDelete = TRUE],
                          IF out = "notManifold" THEN NotManifoldMsg ELSE DeletedMsg)
              [] OTHER ->
                   [eng EXCEPT !.manifold = "live", !.live = @ + 1,
                               !.manifoldWithHoles = "orig",
                               !.pc = IF eng.holes /\ CutCells(eng.sections) # <<>>
                                        THEN "probe" ELSE "cells"]
  /\ UNCHANGED <<rvars, fvars>>

\* findGeometryBoundsAtCutPlane, one sample: Manifold.cube(..).translate(..)
\* (two solids), manifold.intersect(testBox) (one solid), then testBox and the
\* intersection are deleted.  A throwing intersect leaves cube and testBox.
ProbeSample(out) ==
  /\ eng.pc = "probe"
  /\ eng.ns < MaxSamples
  /\ eng' = IF out = "throw"
              THEN Caught([eng EXCEPT !.live = @ + 2], OutOfBoundsMsg)
              ELSE [eng EXCEPT !.live = @ + 1, !.ns = @ + 1,
                               !.foundAny = @ \/ (out = "hit")]
  /\ UNCHANGED <<rvars, fvars>>

\* the probe returns: null (the cell is skipped) or the footprint, from which
\* the candidate ladder is built
ProbeEnd(size) ==
  /\ eng.pc = "probe"
  /\ eng.ns >= 1
  /\ eng' = IF ~eng.foundAny
              THEN NextCutCell(eng)
              ELSE [eng EXCEPT !.pc = "cand", !.k = 1,
                               !.nCand = LadderSize(eng.spacing, size)]
  /\ UNCHANGED <<rvars, fvars>>

\* one candidate of the ladder: isHoleSafe, the test cylinder, the trial
\* subtract, the borderline half-depth subtract, acceptance or rejection
Evaluated(e, axis, removed, half) ==
  LET chain == CylinderChain(axis)
      border == RemovalRatioOk(removed) /\ Borderline(removed)
      keep == ShouldKeep(removed, half)
      \* cylinder chain + testManifold; half chain + halfDepthManifold, of
      \* which halfDepthCylinder and halfDepthManifold are deleted again
      created == chain + 1 + (IF border THEN chain + 1 ELSE 0)
      deleted == (IF border THEN 2 ELSE 0)
                 \* old working solid (accepted, not the original) or trial
                 + (IF keep /\ e.manifoldWithHoles = "orig" THEN 0 ELSE 1)
                 \* cylinder.delete()
                 + 1
  IN [e EXCEPT !.live = @ + created - deleted,
               !.manifoldWithHoles = IF keep THEN "own" ELSE @,
               !.lastEval = [axis |-> axis, accepted |-> keep,
                             removed |-> removed,
                             half |-> IF border THEN half ELSE -1,
                             \* cylinder solids and trial solids (results of
                             \* subtract) live at the peak of the evaluation
                             cylinders |-> IF border THEN 2 * chain ELSE chain,
                             trials |-> IF border THEN 2 ELSE 1,
                             \* solids of the evaluation, other than an
                             \* adopted trial, still live after it
                             unreleased |-> (chain - 1)
                                            + (IF border THEN chain - 1 ELSE 0)],
               !.k = @ + 1]

Candidate(safe, removed, half, throwAt) ==
  /\ eng.pc = "cand"
  /\ eng.k <= eng.nCand
  /\ LET axis == CutCells(eng.sections)[eng.ci].axis
         chain == CylinderChain(axis)
     IN eng' =
          IF ~safe THEN [eng EXCEPT !.k = @ + 1, !.lastEval = NoEval]
          ELSE IF throwAt = "subtract"
            THEN Caught([eng EXCEPT !.live = @ + chain], OutOfBoundsMsg)
          ELSE IF throwAt = "halfSubtract" /\ RemovalRatioOk(removed)
                  /\ Borderline(removed)
            THEN Caught([eng EXCEPT !.live = @ + 2 * chain + 1], OutOfBoundsMsg)
          ELSE Evaluated(eng, axis, removed, half)
  /\ UNCHANGED <<rvars, fvars>>

\* the ladder of the cell is exhausted
CandidatesDone ==
  /\ eng.pc = "cand"
  /\ eng.k > eng.nCand
  /\ eng' = NextCutCell(eng)
  /\ UNCHANGED <<rvars, fvars>>

\* one cell of the splitting loops: Manifold.cube(..).translate(..),
\* intersect, cuttingBox.delete(), the status / volume test, the export and
\* partManifold.delete().  qualified records the cells whose intersection
\* has status NoError and a volume above 0.001 (such a solid has vertices, so
\* the test of vertProperties.length passes for it).
Cell(out) ==
  /\ eng.pc = "cells"
  /\ eng.xi <= Len(GridCells(eng.sections))
  /\ eng' = CASE out = "intersectThrows" ->
                   Caught([eng EXCEPT !.live = @ + 2], OutOfBoundsMsg)
              [] out = "writeThrows" ->
                   Caught([eng EXCEPT !.live = @ + 2,
                             !.qualified = Append(@, GridCells(eng.sections)[eng.xi])],
                          FileMsg)
              [] out = "part" ->
                   [eng EXCEPT !.live = @ + 1, !.xi = @ + 1,
                               !.qualified = Append(@, GridCells(eng.sections)[eng.xi]),
                               !.parts = Append(@, GridCells(eng.sections)[eng.xi])]
              [] OTHER -> [eng EXCEPT !.live = @ + 1, !.xi = @ + 1]
  /\ UNCHANGED <<rvars, fvars>>

\* a mutated return: the success result whatever the parts
ReturnAlwaysSuccess ==
  /\ eng.pc = "cells"
  /\ eng.xi > Len(GridCells(eng.sections))
  /\ eng' = [eng EXCEPT !.pc = "finally", !.result = "success"]
  /\ UNCHANGED <<rvars, fvars>>

\* after the last cell: the failure result without parts, or the success result
Return ==
  /\ eng.pc = "cells"
  /\ eng.xi > Len(GridCells(eng.sections))
  /\ eng' = [eng EXCEPT !.pc = "finally",
                        !.result = IF Len(eng.parts) = 0 THEN "empty" ELSE "success",
                        !.error = IF Len(eng.parts) = 0 THEN EmptyMsg ELSE ""]
  /\ UNCHANGED <<rvars, fvars>>

\* the finally block: manifoldWithHoles.delete() unless it is the original or
\* null, then manifold.delete() unless null
Cleanup ==
  /\ eng.pc = "finally"
  /\ eng' = [eng EXCEPT
       !.pc = "done",
       !.live = @ - (IF eng.manifoldWithHoles = "own" THEN 1 ELSE 0)
                  - (IF eng.manifold = "live" THEN 1 ELSE 0),
       !.doubleDelete = @ \/ (eng.manifold = "deleted"),
       !.manifold = IF @ = "null" THEN "null" ELSE "deleted",
       !.manifoldWithHoles = IF @ = "own" THEN "deleted" ELSE @]
  /\ UNCHANGED <<rvars, fvars>>

NextEngine ==
  \/ \E s \in SectionChoices, h \in BOOLEAN, sp \in Spacings : SplitSTL(s, h, sp)
  \/ \E out \in {"ok", "notManifold", "statusThrows", "parseError"} :
       CreateManifold(out)
  \/ \E out \in {"hit", "miss", "throw"} : ProbeSample(out)
  \/ \E size \in {"small", "medium", "large"} : ProbeEnd(size)
  \/ Candidate(FALSE, 0, 0, "none")
  \/ Candidate(TRUE, 0, 0, "subtract")
  \/ \E removed \in 0..ExpectedVolume, throwAt \in {"none", "halfSubtract"} :
       \* the half-depth volume is measured in the borderline case only
       \E half \in IF RemovalRatioOk(removed) /\ Borderline(removed)
                     THEN 0..removed ELSE {0} :
         /\ throwAt = "halfSubtract" => RemovalRatioOk(removed) /\ Borderline(removed)
         /\ Candidate(TRUE, removed, half, throwAt)
  \/ CandidatesDone
  \/ \E out \in {"part", "empty", "intersectThrows", "writeThrows"} : Cell(out)
  \/ Return
  \/ Cleanup

SpecEngine == Init /\ [][NextEngine]_vars

\* ---------------------------------------------- Split Engine, larger grids
\* The same actions on grids of up to MaxOrderCells cells, so that two axes
\* are cut in one call; the ladder is the sparse one and the candidate volumes
\* are the two clear cases (nothing removed, a full hole removed).
MaxOrderCells == 4   \* grid cells of one call

OrderSections ==
  {s \in (1..MaxSections) \X (1..MaxSections) \X (1..MaxSections) :
     s[1] * s[2] * s[3] <= MaxOrderCells}

NextOrder ==
  \/ \E s \in OrderSections, h \in BOOLEAN : SplitSTL(s, h, "sparse")
  \/ \E out \in {"ok", "notManifold", "statusThrows", "parseError"} :
       CreateManifold(out)
  \/ \E out \in {"hit", "miss"} : ProbeSample(out)
  \/ \E size \in {"small", "medium"} : ProbeEnd(size)
  \/ Candidate(FALSE, 0, 0, "none")
  \/ \E removed \in {0, ExpectedVolume} : Candidate(TRUE, removed, 0, "none")
  \/ CandidatesDone
  \/ \E out \in {"part", "empty", "writeThrows"} : Cell(out)
  \/ Return
  \/ Cleanup

SpecOrder == Init /\ [][NextOrder]_vars

\* ------------------------------------------- a Split job with its engine
\* One Split job whose processor calls splitSTL step by step: the call of the
\* worker starts the engine on the job's mesh (no alignment holes), the
\* engine runs its cell loop, and its result is handed back to the processor.
\* The hard timeout and the admin's force-fail can take the job from the
\* worker while the engine runs.

\* the object splitSTL returns
ResultOf(e) ==
  IF e.result = "success"
    THEN [success |-> TRUE, parts |-> e.parts, total_parts |-> Len(e.parts)]
    ELSE [success |-> FALSE, error |-> e.error]

\* POST /api/process, once
SubmitSplit ==
  /\ used["submit"] = 0
  /\ Submit("split")

\* splitter.splitSTL(..) is called by the processor of job j
CallSplitSTL(j, s) ==
  /\ tpc[j] = "process"
  /\ queueOf[j] = "split"
  /\ eng.pc = "idle" \/ (eng.pc = "done" /\ eng.delivered)
  /\ eng' = [pc |-> "create", sections |-> s, holes |-> FALSE,
             spacing |-> "normal", manifold |-> "null",
             manifoldWithHoles |-> "null", live |-> 0, doubleDelete |-> FALSE,
             useAfterDelete |-> FALSE, ci |-> 1, ns |-> 0, foundAny |-> FALSE,
             k |-> 1, nCand |-> 0, lastEval |-> NoEval, xi |-> 1,
             parts |-> <<>>, result |-> "none", qualified |-> <<>>,
             error |-> "", job |-> j, delivered |-> FALSE]
  /\ updateProgress(j, 20)
  /\ UNCHANGED <<jvars, fvars>>

\* the promise of splitSTL settles and the processor of job j goes on
SplitSTLSettles(j) ==
  /\ eng.pc = "done"
  /\ ~eng.delivered
  /\ eng.job = j
  /\ \E rejected \in SplitSTLRejects : ProcessSplitStep(j, rejected, ResultOf(eng))
  /\ eng' = [eng EXCEPT !.delivered = TRUE]
  /\ UNCHANGED <<progress, posReq, fvars>>

NextSplitJob ==
  \/ SubmitSplit
  \/ \E w \in Workers : Dequeue(w, "split")
  \/ \E j \in JobIds : checkCancellation(j)
  \/ \E j \in JobIds : Download(j, TRUE)
  \/ \E j \in JobIds, s \in OrderSections : CallSplitSTL(j, s)
  \/ \E out \in {"ok", "notManifold", "statusThrows", "parseError"} :
       CreateManifold(out)
  \/ \E out \in {"part", "empty", "intersectThrows", "writeThrows"} : Cell(out)
  \/ Return
  \/ Cleanup
  \/ \E j \in JobIds : SplitSTLSettles(j)
  \/ \E j \in JobIds, ok \in BOOLEAN : UploadParts(j, ok)
  \/ \E j \in JobIds : ZipUpload(j, TRUE)
  \/ \E j \in JobIds : Finalize(j)
  \/ \E j \in JobIds : Timeout(j)
  \/ \E j \in JobIds : ForceFail(j)

SpecSplitJob == Init /\ [][NextSplitJob]_vars

\* ======================================================= boundary gate
\* manifold-splitter.ts: strategicPositions and isHoleSafe on one section
\* rectangle.  Lengths are integers in units of 1/60 mm; the radius is even,
\* so that edgeInset = 2.5 x radius is an integer.
MaxRadius == 6   \* largest hole radius, in units
MaxSide == 3     \* largest side of the measured rectangle, in probe samples
MaxOrigin == 1   \* largest lower corner coordinate, in probe samples

SafetyMargin == 6   \* safetyMargin = 0.1 mm
SampleSize == 30    \* sampleSize = 0.5 mm

\* the radii of the holes of 1 mm, 1.8 mm (the default) and 5 mm diameter
DiameterRadii == {30, 54, 150}

\* sides, in probe samples, that reach the size gates of those radii
LargeSides == {5, 10, 25, 50}

Radii == {r \in 1..MaxRadius : r % 2 = 0} \cup DiameterRadii

\* the rectangles findGeometryBoundsAtCutPlane can return: corners on the
\* sample grid
Rectangles ==
  {[min1 |-> SampleSize * o1, max1 |-> SampleSize * (o1 + w),
    min2 |-> SampleSize * o2, max2 |-> SampleSize * (o2 + h)] :
     o1 \in 0..MaxOrigin, o2 \in 0..MaxOrigin,
     w \in (1..MaxSide) \cup LargeSides, h \in (1..MaxSide) \cup LargeSides}

\* a mutated inset: the radius itself
EdgeInsetRadius(holeRadius) == holeRadius

\* edgeInset = holeRadius * 2.5
EdgeInset(holeRadius) == (holeRadius * 5) \div 2

\* strategicPositions of one cut-plane cell, as <<pos1, pos2>> pairs in the
\* order they are pushed
StrategicPositions(b, holeRadius, spacing) ==
  LET edgeInset == EdgeInset(holeRadius)
      sectionWidth == b.max1 - b.min1
      sectionHeight == b.max2 - b.min2
      center1 == (b.min1 + b.max1) \div 2
      center2 == (b.min2 + b.max2) \div 2
      oneThird == b.min1 + (b.max1 - b.min1) \div 3
      twoThird == b.min1 + (2 * (b.max1 - b.min1)) \div 3
      corners == << <<b.min1 + edgeInset, b.min2 + edgeInset>>,
                    <<b.min1 + edgeInset, b.max2 - edgeInset>>,
                    <<b.max1 - edgeInset, b.min2 + edgeInset>>,
                    <<b.max1 - edgeInset, b.max2 - edgeInset>>,
                    <<center1, center2>> >>
      mids == << <<center1, b.min2 + edgeInset>>,
                 <<center1, b.max2 - edgeInset>>,
                 <<b.min1 + edgeInset, center2>>,
                 <<b.max1 - edgeInset, center2>> >>
      thirds == << <<oneThird, b.min2 + edgeInset>>,
                   <<twoThird, b.min2 + edgeInset>>,
                   <<oneThird, b.max2 - edgeInset>>,
                   <<twoThird, b.max2 - edgeInset>> >>
      big == /\ spacing # "sparse"
             /\ sectionWidth >= edgeInset * 4
             /\ sectionHeight >= edgeInset * 4
  IN IF sectionWidth >= edgeInset * 2 /\ sectionHeight >= edgeInset * 2
       THEN corners \o (IF big THEN mids ELSE <<>>)
                    \o (IF big /\ spacing = "dense" THEN thirds ELSE <<>>)
       ELSE <<>>

\* a mutated gate: only the first perpendicular axis is tested
isHoleSafeAxis1(pos, holeRadius, actualBounds) ==
  LET minSafeDistance == holeRadius + SafetyMargin
  IN /\ pos[1] - actualBounds.min1 >= minSafeDistance
     /\ actualBounds.max1 - pos[1] >= minSafeDistance

\* isHoleSafe: all four distances are at least holeRadius + safetyMargin
isHoleSafe(pos, holeRadius, actualBounds) ==
  LET minSafeDistance == holeRadius + SafetyMargin
      distToMin1 == pos[1] - actualBounds.min1
      distToMax1 == actualBounds.max1 - pos[1]
      distToMin2 == pos[2] - actualBounds.min2
      distToMax2 == actualBounds.max2 - pos[2]
  IN /\ distToMin1 >= minSafeDistance
     /\ distToMax1 >= minSafeDistance
     /\ distToMin2 >= minSafeDistance
     /\ distToMax2 >= minSafeDistance

\* the inputs: a radius, a measured rectangle, a spacing
GateInit ==
  gate \in [pc : {"ladder"}, holeRadius : Radii, actualBounds : Rectangles,
            spacing : Spacings, k : {1},
            last : {[pos |-> <<0, 0>>, safe |-> FALSE, csg |-> FALSE,
                     accepted |-> FALSE]}]

\* one pass of `for (const pos of strategicPositions)`: the boundary gate,
\* then (not modelled further here) the CSG test whose verdict is keep
GateCandidate(keep) ==
  /\ gate.pc = "ladder"
  /\ LET ladder == StrategicPositions(gate.actualBounds, gate.holeRadius, gate.spacing)
     IN /\ gate.k <= Len(ladder)
        /\ LET pos == ladder[gate.k]
               safe == isHoleSafe(pos, gate.holeRadius, gate.actualBounds)
           IN gate' = [gate EXCEPT
                         !.k = @ + 1,
                         !.last = [pos |-> pos, safe |-> safe, csg |-> safe,
                                   accepted |-> safe /\ keep]]
  /\ UNCHANGED <<rvars, evars, grid, codec, hvars>>

\* the ladder is exhausted
GateDone ==
  /\ gate.pc = "ladder"
  /\ gate.k > Len(StrategicPositions(gate.actualBounds, gate.holeRadius, gate.spacing))
  /\ gate' = [gate EXCEPT !.pc = "done"]
  /\ UNCHANGED <<rvars, evars, grid, codec, hvars>>

NextGate ==
  \/ \E keep \in BOOLEAN : GateCandidate(keep)
  \/ GateDone

InitGate ==
  /\ RuntimeInit /\ EngineInit /\ HandlersIdle /\ GateInit
  /\ grid = [pc |-> "idle"] /\ codec = [pc |-> "idle"]

SpecGate == InitGate /\ [][NextGate]_vars

\* ============================================================ grid sizes
\* manifold-splitter.ts: calculateBalancedSplit and the cutting boxes of one
\* axis, in floating-point arithmetic.  A number is an integer count of units
\* of 1/2^FractionBits; the representable numbers are those with a mantissa of
\* at most MantissaBits bits (IEEE-754 doubles have 53), and every division,
\* product and sum is rounded to the nearest of them, ties to even.
MantissaBits == 4   \* width of the mantissa
FractionBits == 4   \* the unit is 1/2^FractionBits
MaxExponent == 8    \* largest binary exponent of a number of units
MaxExtent == 14     \* largest bounds.max of the axis
MaxDim == 6         \* largest dimensions.x (maximum piece size)
MaxOriginGrid == 1  \* largest bounds.min of the axis

One == 2 ^ FractionBits

\* the representable numbers
Floats == {m * (2 ^ e) : m \in 0..(2 ^ MantissaBits - 1), e \in 0..MaxExponent}

SetMax(S) == CHOOSE x \in S : \A y \in S : y <= x

SetMin(S) == CHOOSE x \in S : \A y \in S : x <= y

\* the representable number nearest to a / b (a >= 0, b > 0), ties to even
Fl(a, b) ==
  LET lo == SetMax({x \in Floats : x * b <= a})
      hi == SetMin({x \in Floats : x * b >= a})
  IN IF lo = hi THEN lo
     ELSE IF a - lo * b < hi * b - a THEN lo
     ELSE IF a - lo * b > hi * b - a THEN hi
     ELSE IF (lo \div (hi - lo)) % 2 = 0 THEN lo ELSE hi

\* Math.ceil of a number of units, as an integer
Ceil(x) == (x + One - 1) \div One

\* calculateBalancedSplit(size, maxDim) with options.balancedCutting
calculateBalancedSplit(size, maxDim, balancedCutting) ==
  LET numSections == IF Ceil(Fl(size * One, maxDim)) > 1
                       THEN Ceil(Fl(size * One, maxDim)) ELSE 1
      remainder == size % maxDim
      shouldBalance == remainder > 0 /\ 2 * remainder < maxDim
  IN [numSections |-> numSections,
      pieceSize |-> IF balancedCutting /\ shouldBalance
                      THEN Fl(size, numSections) ELSE maxDim]

\* boxMin of cell i (0-based): bounds.min + i * pieceSize
BoxMin(g, i) == Fl(g.min + Fl(i * g.pieceSize, 1), 1)

\* boxMax of cell i: Math.min(bounds.max, bounds.min + (i + 1) * pieceSize)
BoxMax(g, i) ==
  LET end == Fl(g.min + Fl((i + 1) * g.pieceSize, 1), 1)
  IN IF g.max < end THEN g.max ELSE end

\* the inputs: the bounds of the mesh on one axis, the maximum dimension, the
\* balanced-cutting option
GridInit ==
  grid \in {[pc |-> "split", min |-> lo * One, max |-> hi * One,
             maxDim |-> m * One, balancedCutting |-> b,
             size |-> 0, numSections |-> 0, pieceSize |-> 0, i |-> 0,
             boxMin |-> 0, boxMax |-> 0, prevMax |-> 0] :
              lo \in 0..MaxOriginGrid, hi \in 1..MaxExtent, m \in 1..MaxDim,
              b \in BOOLEAN}
  /\ grid.min < grid.max
  /\ grid.min \in Floats /\ grid.max \in Floats /\ grid.maxDim \in Floats

\* modelSize = bounds.max - bounds.min; xSplit = calculateBalancedSplit(..)
GridSplit ==
  /\ grid.pc = "split"
  /\ LET size == Fl(grid.max - grid.min, 1)
         r == calculateBalancedSplit(size, grid.maxDim, grid.balancedCutting)
     IN grid' = [grid EXCEPT !.pc = "boxes", !.size = size,
                             !.numSections = r.numSections,
                             !.pieceSize = r.pieceSize, !.i = 0]
  /\ UNCHANGED <<rvars, evars, gate, codec, hvars>>

\* one pass of the cell loop on this axis: boxMin, boxMax of cell i
GridBox ==
  /\ grid.pc = "boxes"
  /\ grid.i < grid.numSections
  /\ grid' = [grid EXCEPT !.i = @ + 1,
                          !.boxMin = BoxMin(grid, grid.i),
                          !.boxMax = BoxMax(grid, grid.i),
                          !.prevMax = IF grid.i = 0 THEN grid.min ELSE grid.boxMax]
  /\ UNCHANGED <<rvars, evars, gate, codec, hvars>>

\* the loop on this axis ends
GridDone ==
  /\ grid.pc = "boxes"
  /\ grid.i = grid.numSections
  /\ grid' = [grid EXCEPT !.pc = "done"]
  /\ UNCHANGED <<rvars, evars, gate, codec, hvars>>

NextGrid == GridSplit \/ GridBox \/ GridDone

InitGrid ==
  /\ RuntimeInit /\ EngineInit /\ HandlersIdle /\ GridInit
  /\ gate = [pc |-> "idle"] /\ codec = [pc |-> "idle"]

SpecGrid == InitGrid /\ [][NextGrid]_vars

\* =============================================================== STL codec
\* manifold-splitter.ts: parseSTLFile, parseBinarySTL, parseASCIISTL and
\* writeSTLFile.  A coordinate is a non-negative integer count of units; a
\* number read from text (a double) is exact, a single-precision number (the
\* floats of a binary file, the entries of a Float32Array) has a mantissa of
\* SingleBits bits, and KeyStep units make one step of the sixth decimal.
SingleBits == 4      \* width of the single-precision mantissa
MaxSingleExp == 5    \* largest binary exponent of a single-precision number
KeyStep == 4         \* units in one step of the sixth decimal (toFixed(6))
MaxFacetLines == 4   \* vertex lines of the facet of an ASCII input
MaxTriangles == 1    \* triangles of a binary input

\* Infinity, the initial value of the bounds
Infinity == 1000000

\* the uint32 at offset 80 of a text file: four characters of the text read
\* as a number, far above the count that would fit the length of the file
TextCount == 1000000

Singles == {m * (2 ^ e) : m \in 0..(2 ^ SingleBits - 1), e \in 0..MaxSingleExp}

\* the single-precision number nearest to x, ties to even
ToSingle(x) ==
  LET lo == SetMax({y \in Singles : y <= x})
      hi == SetMin({y \in Singles : y >= x})
  IN IF lo = hi THEN lo
     ELSE IF x - lo < hi - x THEN lo
     ELSE IF x - lo > hi - x THEN hi
     ELSE IF (lo \div (hi - lo)) % 2 = 0 THEN lo ELSE hi

\* x.toFixed(6): the number of sixth-decimal steps nearest to x, the larger
\* one of two
toFixed6(x) == (2 * x + KeyStep) \div (2 * KeyStep)

\* the deduplication key of a vertex
KeyOf(v) == <<toFixed6(v[1]), toFixed6(v[2]), toFixed6(v[3])>>

MinOf(a, b) == IF a < b THEN a ELSE b

MaxOf(a, b) == IF a > b THEN a ELSE b

\* the locals of a parser before the first line or triangle
ParserStart ==
  [vertices |-> <<>>, keys |-> <<>>, triangles |-> <<>>,
   triangleVertices |-> <<>>,
   min |-> <<Infinity, Infinity, Infinity>>,
   max |-> <<-Infinity, -Infinity, -Infinity>>]

\* vertexMap.get(key): the index stored under the key, -1 when undefined
MapGet(keys, key) ==
  IF \E i \in 1..Len(keys) : keys[i] = key
    THEN (CHOOSE i \in 1..Len(keys) : keys[i] = key) - 1
    ELSE -1

\* one vertex is read: the bounds are updated, the vertex is pushed unless
\* its key is known; the result carries the index of the vertex
ReadVertex(st, v) ==
  LET key == KeyOf(v)
      known == MapGet(st.keys, key)
      bounded == [st EXCEPT
                    !.min = [a \in 1..3 |-> MinOf(st.min[a], v[a])],
                    !.max = [a \in 1..3 |-> MaxOf(st.max[a], v[a])]]
  IN IF known >= 0
       THEN [st |-> bounded, index |-> known]
       ELSE [st |-> [bounded EXCEPT !.keys = Append(@, key),
                                    !.vertices = Append(@, v)],
             index |-> Len(st.keys)]

\* the returned mesh: new Float32Array(vertices), new Uint32Array(triangles)
\* and the bounds as they were tracked
MeshOf(st) ==
  [vertices |-> [i \in 1..Len(st.vertices) |->
                   [a \in 1..3 |-> ToSingle(st.vertices[i][a])]],
   triangles |-> st.triangles,
   bounds |-> [min |-> st.min, max |-> st.max]]

\* parseBinarySTL, the loop over the vertices of all triangles: vs is the
\* sequence of the vertices still to read
RECURSIVE BinaryLoop(_, _)
BinaryLoop(st, vs) ==
  IF vs = <<>> THEN st
  ELSE LET r == ReadVertex(st, Head(vs))
       IN BinaryLoop([r.st EXCEPT !.triangles = Append(@, r.index)], Tail(vs))

\* the vertices of the triangles of a binary file, in file order
RECURSIVE FileVertices(_)
FileVertices(tris) ==
  IF tris = <<>> THEN <<>> ELSE Head(tris) \o FileVertices(Tail(tris))

parseBinarySTL(f) == MeshOf(BinaryLoop(ParserStart, FileVertices(f.tris)))

\* parseASCIISTL, one line: a vertex line with three coordinates is read, a
\* vertex line with another number of coordinates is passed over, endfacet
\* pushes the triangle if exactly three vertices were read since the last one
AsciiLine(st, line) ==
  IF line.kind = "vertex"
    THEN IF Len(line.coords) = 3
           THEN LET r == ReadVertex(st, line.coords)
                IN [r.st EXCEPT !.triangleVertices = Append(@, r.index)]
           ELSE st
  ELSE IF line.kind = "endfacet"
    THEN [st EXCEPT !.triangles = IF Len(st.triangleVertices) = 3
                                    THEN @ \o st.triangleVertices ELSE @,
                    !.triangleVertices = <<>>]
  ELSE st

RECURSIVE AsciiLoop(_, _)
AsciiLoop(st, lines) ==
  IF lines = <<>> THEN st
  ELSE AsciiLoop(AsciiLine(st, Head(lines)), Tail(lines))

parseASCIISTL(lines) == MeshOf(AsciiLoop(ParserStart, lines))

\* parseSTLFile: binary when the length fits the triangle count at offset 80
parseSTLFile(f) ==
  IF f.length = 80 + 4 + f.count * 50
    THEN parseBinarySTL(f)
    ELSE parseASCIISTL(f.lines)

\* writeSTLFile: the header, the triangle count, and per triangle the normal
\* (not read back by the parser) and the three vertices with writeFloatLE
writeSTLFile(mesh) ==
  LET triangleCount == Len(mesh.triangles) \div 3
      vertex(t, c) == [a \in 1..3 |->
                         ToSingle(mesh.vertices[mesh.triangles[3 * (t - 1) + c] + 1][a])]
  IN [length |-> 80 + 4 + triangleCount * 50,
      count |-> triangleCount,
      tris |-> [t \in 1..triangleCount |-> <<vertex(t, 1), vertex(t, 2), vertex(t, 3)>>],
      lines |-> <<>>]

\* --- inputs
\* coordinates of binary inputs: single-precision numbers, two of them under
\* one key
BinaryCoords == {x \in {0, 1, 64, 72} : x \in Singles}

\* coordinates of ASCII inputs: two under one key, two with different keys
\* and the same single-precision value
AsciiCoords == {0, 1, 64, 68}

BinaryFiles ==
  {[length |-> 80 + 4 + Len(tris) * 50, count |-> Len(tris), tris |-> tris,
    lines |-> <<>>] :
     tris \in UNION {[1..n -> [1..3 -> {<<x, 0, 0>> : x \in BinaryCoords}]] :
                       n \in 0..MaxTriangles}}

\* vertex lines: three coordinates, or two, or four
VertexLines ==
  {[kind |-> "vertex", coords |-> <<x, 0, 0>>] : x \in AsciiCoords}
  \cup {[kind |-> "vertex", coords |-> <<1, 0>>],
        [kind |-> "vertex", coords |-> <<1, 0, 0, 0>>]}

\* a text file with one facet of three or more vertex lines
AsciiFiles ==
  {[length |-> Len(vl) + 2, count |-> TextCount, tris |-> <<>>,
    lines |-> <<[kind |-> "facet", coords |-> <<>>]>> \o vl
                \o <<[kind |-> "endfacet", coords |-> <<>>]>>] :
     vl \in UNION {[1..n -> VertexLines] : n \in 3..MaxFacetLines}}

NoMesh == [none |-> TRUE]

NoFile == [length |-> 0, count |-> 0, tris |-> <<>>, lines |-> <<>>]

CodecInit ==
  codec \in {[pc |-> "file", file |-> f, mesh |-> NoMesh, written |-> NoFile,
              again |-> NoMesh] : f \in BinaryFiles \cup AsciiFiles}

\* parseSTLFile(inputPath)
Decode ==
  /\ codec.pc = "file"
  /\ codec' = [codec EXCEPT !.pc = "decoded", !.mesh = parseSTLFile(codec.file)]
  /\ UNCHANGED <<rvars, evars, gate, grid, hvars>>

\* writeSTLFile(mesh, path)
Encode ==
  /\ codec.pc = "decoded"
  /\ codec' = [codec EXCEPT !.pc = "encoded", !.written = writeSTLFile(codec.mesh)]
  /\ UNCHANGED <<rvars, evars, gate, grid, hvars>>

\* parseSTLFile(path) of the written file
DecodeAgain ==
  /\ codec.pc = "encoded"
  /\ codec' = [codec EXCEPT !.pc = "again", !.again = parseSTLFile(codec.written)]
  /\ UNCHANGED <<rvars, evars, gate, grid, hvars>>

NextCodec == Decode \/ Encode \/ DecodeAgain

InitCodec ==
  /\ RuntimeInit /\ EngineInit /\ HandlersIdle /\ CodecInit
  /\ gate = [pc |-> "idle"] /\ grid = [pc |-> "idle"]

SpecCodec == InitCodec /\ [][NextCodec]_vars

\* ====================================================== POST /api/process
\* values a request gives to a member of dimensions
DimValues == {-1, 0, 200}

\* the dimensions objects of a request: every member may be missing
Dimensions ==
  UNION {[S -> DimValues] : S \in SUBSET {"x", "y", "z"}}

\* request bodies: fileId and fileName are strings ("" when empty), and the
\* member dimensions may be missing
Bodies ==
  [fileId : {"", "file-1"}, fileName : {"", "model.stl"}, dimensions : Dimensions]
    \cup [fileId : {"", "file-1"}, fileName : {"", "model.stl"}]

\* !r[k] of JavaScript for a member that, when present, is a string
NotString(r, k) == k \notin DOMAIN r \/ r[k] = ""

\* !r[k] of JavaScript for a member that, when present, is a number: a
\* missing member and 0 are falsy, every other number is truthy
NotNumber(r, k) == k \notin DOMAIN r \/ r[k] = 0

\* the first validation: required fields
MissingFields(body) ==
  \/ NotString(body, "fileId")
  \/ NotString(body, "fileName")
  \/ "dimensions" \notin DOMAIN body

\* the second validation: the members of dimensions
MissingDimensions(body) ==
  \/ NotNumber(body.dimensions, "x")
  \/ NotNumber(body.dimensions, "y")
  \/ NotNumber(body.dimensions, "z")

\* router.post('/'): the two validations answer 400; else the job is added
\* to the processing queue and the answer is 200 with its id
PostProcess(body) ==
  IF MissingFields(body) \/ MissingDimensions(body)
  THEN /\ post' = [pc |-> "done", body |-> body, status |-> 400, jobId |-> 0]
       /\ UNCHANGED <<rvars, evars, gate, grid, codec, ret, store, fleet>>
  ELSE /\ addJob("split")
       /\ post' = [pc |-> "done", body |-> body, status |-> 200,
                   jobId |-> used["submit"] + 1]
       /\ UNCHANGED <<evars, gate, grid, codec, ret, store, fleet>>

NextProcess == \E body \in Bodies : PostProcess(body)

SpecProcess == Init /\ [][NextProcess]_vars

\* ============================================================== retention
\* Bull keeps the finished jobs of a queue in two sets ordered by finish
\* time, "completed" and "failed".  removeOnComplete / removeOnFail are
\* applied by the script that moves a job into its set: after adding the
\* job it removes, from that set only, the jobs that finished at least
\* `age` ago, and then all but the `count` latest (no count: no limit).
\* Nothing else in the broker removes a job when its age is reached.
RetJobs == 1..MaxRetJobs

\* the jobs of a set that are not among the count latest
BeyondCount(members, jobs, count) ==
  {j \in members :
     Cardinality({k \in members : jobs[k].at > jobs[j].at
                                    \/ (jobs[k].at = jobs[j].at /\ k > j)}) >= count}

\* moveToFinished with keepJobs = {age, count}; count = 0 stands for no count
KeepJobs(jobs, set, age, count) ==
  LET members == {j \in RetJobs : jobs[j].in = set /\ jobs[j].present}
      old == {j \in members : jobs[j].at <= ret.now - age}
      many == IF count = 0 THEN {} ELSE BeyondCount(members \ old, jobs, count)
  IN [j \in RetJobs |->
        IF j \in old \cup many THEN [jobs[j] EXCEPT !.present = FALSE]
        ELSE jobs[j]]

RetFrame == UNCHANGED <<rvars, evars, gate, grid, codec, post, store, fleet>>

\* a Split job finishes: it returns (completed) or throws (failed)
Finish(j, set) ==
  /\ ret.jobs[j].in = "none"
  /\ \A k \in RetJobs : k < j => ret.jobs[k].in # "none"
  /\ LET added == [ret.jobs EXCEPT
                      ![j] = [in |-> set, at |-> ret.now, present |-> TRUE]]
         age == IF set = "completed" THEN CompletedAge ELSE FailedAge
         count == IF set = "completed" THEN CompletedCount ELSE 0
     IN ret' = [ret EXCEPT !.jobs = KeepJobs(added, set, age, count)]
  /\ RetFrame

\* DELETE /api/jobs/:id for a job that is not active: cancelJob removes it
RetDelete(j) ==
  /\ ret.jobs[j].present
  /\ ret' = [ret EXCEPT !.jobs[j].present = FALSE]
  /\ RetFrame

\* a day passes
Tick ==
  /\ ret.now < MaxDays
  /\ ret' = [ret EXCEPT !.now = @ + 1]
  /\ RetFrame

NextRetention ==
  \/ \E j \in RetJobs, set \in {"completed", "failed"} : Finish(j, set)
  \/ \E j \in RetJobs : RetDelete(j)
  \/ Tick

SpecRetention == Init /\ [][NextRetention]_vars

\* ========================================================= results bucket
\* The Split processor with the objects it puts into the results bucket:
\* one object per part under {jobId}/{part name}, then {jobId}/all-parts.zip.
\* One Split job, its engine run step by step, with the hard timeout, the
\* force-fail, a killed worker and the stall recovery.

\* the object {jobId}/{part name} of a part, named after its section
PartObject(j, section) == [job |-> j, kind |-> "part", section |-> section]

\* the object {jobId}/all-parts.zip
ZipObject(j) == [job |-> j, kind |-> "zip", section |-> <<>>]

\* the promise of splitSTL settles: result.parts is what the processor
\* uploads
SettlesStored(j) ==
  /\ eng.pc = "done"
  /\ ~eng.delivered
  /\ eng.job = j
  /\ \E rejected \in SplitSTLRejects : ProcessSplitStep(j, rejected, ResultOf(eng))
  /\ eng' = [eng EXCEPT !.delivered = TRUE]
  /\ store' = [store EXCEPT
       !.parts[j] = IF eng.result = "success" THEN eng.parts ELSE <<>>]
  /\ UNCHANGED <<progress, posReq, gate, grid, codec, post, ret, fleet>>

\* a mutated upload loop: the loop goes through the parts, nothing is put
UploadStoredNothing(j, n) ==
  /\ n \in 0..Len(store.parts[j])
  /\ UploadPartsStep(j, n = Len(store.parts[j]))
  /\ UNCHANGED <<posReq, evars, fvars>>

\* the upload loop: storage.uploadFile for the parts in order; it throws at
\* part n + 1 when n is less than the number of parts
UploadStored(j, n) ==
  /\ n \in 0..Len(store.parts[j])
  /\ UploadPartsStep(j, n = Len(store.parts[j]))
  /\ store' = [store EXCEPT
       !.objects = @ \cup {PartObject(j, store.parts[j][i]) : i \in 1..n}]
  /\ UNCHANGED <<posReq, evars, gate, grid, codec, post, ret, fleet>>

\* createZipArchive(result.parts.map(p => p.path), zipPath): the archive is
\* built from the part files in the working directory; then its upload
ZipStored(j, ok) ==
  /\ ZipUploadStep(j, ok)
  /\ store' = [store EXCEPT
       !.zip[j] = [from |-> store.parts[j],
                   onDisk |-> <<tworker[j], j>> \in wdirs],
       !.objects = IF ok THEN @ \cup {ZipObject(j)} ELSE @]
  /\ UNCHANGED <<posReq, evars, gate, grid, codec, post, ret, fleet>>

\* the result the processor returns lists uploadedParts; Bull records it
\* with the job when it moves the job to completed
FinalizeStored(j) ==
  /\ FinalizeStep(j)
  /\ store' = [store EXCEPT
       !.returned[j] = IF Held(j) THEN store.parts[j] ELSE @]
  /\ UNCHANGED <<posReq, evars, gate, grid, codec, post, ret, fleet>>

NextStore ==
  \/ SubmitSplit
  \/ \E w \in Workers : Dequeue(w, "split")
  \/ \E j \in JobIds : checkCancellation(j)
  \/ \E j \in JobIds : Download(j, TRUE)
  \/ \E j \in JobIds, s \in OrderSections : CallSplitSTL(j, s)
  \/ CreateManifold("ok")
  \/ \E out \in {"part", "empty", "writeThrows"} : Cell(out)
  \/ Return
  \/ Cleanup
  \/ \E j \in JobIds : SettlesStored(j)
  \/ \E j \in JobIds, n \in 0..MaxOrderCells : UploadStored(j, n)
  \/ \E j \in JobIds, ok \in BOOLEAN : ZipStored(j, ok)
  \/ \E j \in JobIds : FinalizeStored(j)
  \/ \E j \in JobIds : Timeout(j)
  \/ \E j \in JobIds : ForceFail(j)
  \/ \E w \in Workers : Crash(w)
  \/ \E w \in Workers : Restart(w)
  \/ \E j \in JobIds : LockExpire(j)
  \/ \E j \in JobIds : StalledCheck(j)

SpecStore == Init /\ [][NextStore]_vars

\* ================================================ restart, several workers
\* docker-compose up --scale worker=n: n worker processes run the same
\* restartCheckInterval against one broker.  The workers are idle here (no
\* job is being processed), so close() resolves at once.
Fleet == 1..MaxFleet

FleetFrame == UNCHANGED <<rvars, evars, gate, grid, codec, post, ret, store>>

\* POST /api/admin/worker/restart: setex worker:restart 60
FleetSignal ==
  /\ fleet.signals < MaxSignals
  /\ fleet' = [fleet EXCEPT !.key = TRUE, !.signals = @ + 1, !.deleted = FALSE,
                            !.got = [w \in Fleet |-> FALSE]]
  /\ FleetFrame

\* the 60 seconds of the key pass
FleetKeyExpires ==
  /\ fleet.key
  /\ fleet' = [fleet EXCEPT !.key = FALSE]
  /\ FleetFrame

\* restartCheckInterval, client.get('worker:restart'): with a value the
\* handler goes on, without one it waits for the next poll
FleetGet(w) ==
  /\ fleet.pc[w] = "polling"
  /\ fleet' = IF fleet.key
                THEN [fleet EXCEPT !.pc[w] = "got", !.got[w] = TRUE]
                ELSE fleet
  /\ FleetFrame

\* client.del('worker:restart')
FleetDel(w) ==
  /\ fleet.pc[w] = "got"
  /\ fleet' = [fleet EXCEPT !.pc[w] = "closing", !.key = FALSE,
                            !.deleted = @ \/ fleet.key]
  /\ FleetFrame

\* processingQueue.close() and process.exit(0)
FleetExit(w) ==
  /\ fleet.pc[w] = "closing"
  /\ fleet' = [fleet EXCEPT !.pc[w] = "exited"]
  /\ FleetFrame

\* the supervisor starts the container again
FleetRestart(w) ==
  /\ fleet.pc[w] = "exited"
  /\ fleet' = [fleet EXCEPT !.pc[w] = "polling"]
  /\ FleetFrame

NextFleet ==
  \/ FleetSignal
  \/ FleetKeyExpires
  \/ \E w \in Fleet : FleetGet(w)
  \/ \E w \in Fleet : FleetDel(w)
  \/ \E w \in Fleet : FleetExit(w)
  \/ \E w \in Fleet : FleetRestart(w)

SpecFleet == Init /\ [][NextFleet]_vars

\* ================================================================= claims
SplitJobs == {j \in JobIds : queueOf[j] = "split"}

\* ---- C1: a Split job is created waiting and only ever moves waiting ->
\* active -> completed or failed; a completed or failed job never becomes
\* waiting or active again.  (Removal by DELETE is left aside here.)
C1_Lifecycle ==
  [][\A j \in JobIds :
       (queueOf'[j] = "split" /\ state'[j] # state[j] /\ state'[j] # "removed")
         => \/ state[j] = "none" /\ state'[j] = "waiting"
            \/ state[j] = "waiting" /\ state'[j] = "active"
            \/ state[j] = "active" /\ state'[j] \in {"completed", "failed"}]_vars

\* ---- C2 as stated: a Split job whose _cancelled flag was set at any moment
\* of its active phase ends failed with reason 'Job was cancelled' (it does
\* not complete, and it does not fail for another reason).
C2_Original ==
  \A j \in SplitJobs :
    (flaggedAt[j] # "never" /\ state[j] \in {"completed", "failed"})
      => (state[j] = "failed" /\ failedReason[j] = CancelledMsg)

\* ---- C2 amended: a checkpoint that reads the flag as set on the existing
\* job ends the processor, removes the working directory and, when the worker
\* still holds the job, fails it with reason 'Job was cancelled'; and a job
\* flagged while active before its worker passed the third checkpoint never
\* completes.
C2_Checkpoint ==
  [][\A j \in JobIds :
       /\ (checkCancellation(j) /\ cancelled[j] /\ state[j] # "removed")
            => /\ tpc'[j] = "idle"
               /\ <<tworker[j], j>> \notin wdirs'
               /\ Held(j) => (state'[j] = "failed" /\ failedReason'[j] = CancelledMsg)
       /\ flaggedAt'[j] = "early" => state'[j] # "completed"]_vars

\* C2 witness: a job flagged early has failed with the cancellation reason and
\* its working directory is gone
C2_Witness ==
  \E j \in SplitJobs :
    /\ flaggedAt[j] = "early"
    /\ state[j] = "failed"
    /\ failedReason[j] = CancelledMsg
    /\ tpc[j] = "idle"
    /\ <<tworker[j], j>> \notin wdirs

\* ---- C3 as stated: a Split job for which DELETE was answered with success
\* while the job was waiting or active is not removed, never completes, has
\* no return value, and when failed carries the reason 'Job was cancelled'.
C3_Original ==
  \A j \in SplitJobs :
    (dresp[j] = "200" /\ dAt[j] \in {"waiting", "active"})
      => /\ state[j] \notin {"removed", "completed"}
         /\ ~returnvalue[j]
         /\ state[j] = "failed" => failedReason[j] = CancelledMsg

\* ---- C3 amended: a job that DELETE found waiting is removed from the queue
\* (not failed): it stays removed, is in no waiting list, holds no lock and
\* has no return value; a job that DELETE flagged while active before its
\* worker passed the third checkpoint has no return value and is not completed.
C3_DeleteAfterSubmit ==
  \A j \in SplitJobs :
    /\ (dEffect[j] = "removed" /\ dAt[j] = "waiting")
         => /\ state[j] = "removed"
            /\ \A i \in 1..Len(wait["split"]) : wait["split"][i] # j
            /\ lock[j] = 0
            /\ ~returnvalue[j]
    /\ (dEffect[j] = "flagged" /\ flaggedAt[j] = "early")
         => (~returnvalue[j] /\ state[j] # "completed")

\* C3 witness: DELETE has removed a job that it found waiting, while another
\* job is waiting behind it
C3_Witness ==
  \E j \in SplitJobs :
    /\ dresp[j] = "200"
    /\ dEffect[j] = "removed"
    /\ dAt[j] = "waiting"
    /\ state[j] = "removed"
    /\ wait["split"] # <<>>

\* ---- C4: a DELETE answered with success has set _cancelled on a job that
\* was active at that moment, or removed a job that was waiting; it never
\* removed a job that was active, completed or failed.
C4_DeleteEffect ==
  \A j \in JobIds :
    dresp[j] = "200"
      => \/ dEffect[j] = "flagged" /\ dAt[j] = "active"
         \/ dEffect[j] = "removed" /\ dAt[j] = "waiting"

\* ---- C5: force-fail moves an active Split or Repair job to failed at once
\* and answers 200; for any other job it answers 404 and changes no job state.
C5_ForceFail ==
  [][\A j \in JobIds :
       ForceFail(j)
         => IF state[j] = "active"
              THEN state'[j] = "failed" /\ ffResp' = 200
              ELSE ffResp' = 404 /\ state' = state]_vars

\* ---- C6: a Split job that is held by a worker when its hard timeout fires,
\* or that the stalled-job check finds without lock, is moved to failed, and
\* the waiting list is left as it is.
C6_StallTimeout ==
  [][\A j \in JobIds :
       (queueOf[j] = "split" /\ ((Timeout(j) /\ Held(j)) \/ StalledCheck(j)))
         => (state'[j] = "failed" /\ wait' = wait)]_vars

\* ---- C7: a poll of the restart handler that finds the key worker:restart
\* ends the worker process, also when the worker has active jobs.
C7_RestartSignal ==
  [][\A w \in Workers : restartCheckInterval(w) => worker'[w] = "exited"]_vars

\* ---- C8: in one worker process, the processor invocations running at the
\* same time, Split and Repair together, never exceed WORKER_CONCURRENCY.
C8_Concurrency ==
  \A w \in Workers : Cardinality(Processing(w)) <= CONCURRENCY

\* ---- C9: when splitSTL has returned, with a success or a failure result,
\* the count of live kernel solids equals the count before the call.
C9_Resources == eng.pc = "done" => eng.live = 0

\* ---- C10: an accepted candidate has removed/expected >= 0.80, and when that
\* ratio is < 0.90 its depth ratio removed_half/removed is >= 0.60.
C10_QualityGate ==
  eng.lastEval.accepted
    => /\ 100 * eng.lastEval.removed >= 80 * ExpectedVolume
       /\ 100 * eng.lastEval.removed < 90 * ExpectedVolume
            => 100 * eng.lastEval.half >= 60 * eng.lastEval.removed

\* C10 witness: a borderline candidate (ratio in [0.80, 0.90)) was accepted on
\* its depth ratio and its trial solid is the working solid
C10_Witness ==
  /\ eng.lastEval.accepted
  /\ 100 * eng.lastEval.removed < 90 * ExpectedVolume
  /\ eng.lastEval.half >= 0
  /\ eng.manifoldWithHoles = "own"

\* the candidate last evaluated by the boundary gate was handed to the CSG test
GateEvaluated == gate.pc = "ladder" /\ gate.k > 1

\* ---- C11 as stated: the disc of radius (hole radius + 0.1 mm) around an
\* accepted candidate lies strictly inside the measured rectangle, and a
\* candidate whose disc does not lie strictly inside gets no CSG operation.
C11_Original ==
  GateEvaluated =>
    LET d == gate.holeRadius + SafetyMargin
        b == gate.actualBounds
        pos == gate.last.pos
        strictlyInside == /\ pos[1] - b.min1 > d /\ b.max1 - pos[1] > d
                          /\ pos[2] - b.min2 > d /\ b.max2 - pos[2] > d
    IN /\ gate.last.accepted => strictlyInside
       /\ ~strictlyInside => ~gate.last.csg

\* ---- C11 amended: the disc of radius (hole radius + 0.1 mm) around an
\* accepted candidate lies inside the measured rectangle, where it may touch
\* the border (each distance to a side is >= radius + 0.1 mm); a candidate
\* with a smaller distance to some side gets no CSG operation.
C11_HoleSafety ==
  GateEvaluated =>
    LET d == gate.holeRadius + SafetyMargin
        b == gate.actualBounds
        pos == gate.last.pos
        inside == /\ pos[1] - b.min1 >= d /\ b.max1 - pos[1] >= d
                  /\ pos[2] - b.min2 >= d /\ b.max2 - pos[2] >= d
    IN /\ gate.last.accepted => inside
       /\ ~inside => (~gate.last.csg /\ ~gate.last.accepted)

\* C11 witness: an accepted candidate whose disc touches the border
C11_Witness ==
  /\ GateEvaluated
  /\ gate.last.accepted
  /\ gate.last.pos[1] - gate.actualBounds.min1 = gate.holeRadius + SafetyMargin

\* rank of a cut axis in the order X, Y, Z
AxisRank(axis) == CASE axis = "x" -> 1 [] axis = "y" -> 2 [] OTHER -> 3

\* lexicographic order on (x, y, z)
LexLess(a, b) ==
  \/ a[1] < b[1]
  \/ a[1] = b[1] /\ a[2] < b[2]
  \/ a[1] = b[1] /\ a[2] = b[2] /\ a[3] < b[3]

C13_PieceFits ==
  grid.pc \in {"boxes", "done"} =>
    /\ grid.pieceSize <= grid.maxDim
    /\ grid.i >= 1 =>
         /\ grid.boxMin < grid.boxMax
         /\ grid.boxMax - grid.boxMin <= grid.maxDim
         /\ grid.boxMin = grid.prevMax
    /\ grid.pc = "done" => grid.boxMax = grid.max

\* ---- C14: sections = max(1, ceil(E / M)) and sections x piece_size >= E;
\* with balanced cutting and E mod M in (0, M/2), sections x piece_size = E
\* exactly; in every other case piece_size = M.
C14_GridCoverage ==
  grid.pc \in {"boxes", "done"} =>
    LET E == grid.size
        Mx == grid.maxDim
        n == grid.numSections
        balance == grid.balancedCutting /\ E % Mx > 0 /\ 2 * (E % Mx) < Mx
    IN /\ n >= 1
       /\ (n - 1) * Mx < E \/ n = 1
       /\ n * Mx >= E
       /\ n * grid.pieceSize >= E
       /\ balance => n * grid.pieceSize = E
       /\ ~balance => grid.pieceSize = Mx

\* the engine has left its cell loop: by its return or by an exception
EngineEnded == eng.pc \in {"finally", "done"}

\* the place of cell c in the order of the cell loop
CellIndex(e, c) ==
  CHOOSE i \in 1..Len(GridCells(e.sections)) : GridCells(e.sections)[i] = c

EngineReturnsParts ==
  (EngineEnded /\ eng.result # "failed") =>
    /\ eng.result = "success" <=> Len(eng.qualified) >= 1
    /\ eng.parts = eng.qualified
    /\ \A a, b \in 1..Len(eng.parts) :
         a < b => CellIndex(eng, eng.parts[a]) < CellIndex(eng, eng.parts[b])
    /\ eng.result = "success" =>
         /\ ResultOf(eng).total_parts = Len(eng.qualified)
         /\ ResultOf(eng).total_parts >= 1
         /\ ResultOf(eng).total_parts
              <= eng.sections[1] * eng.sections[2] * eng.sections[3]
    /\ eng.result = "empty" => ResultOf(eng).error = EmptyMsg

\* a Split job is completed only after a success result of the engine
CompletedHasParts ==
  \A j \in JobIds :
    state[j] = "completed" =>
      eng.job = j /\ eng.delivered /\ eng.result = "success"

\* the processor receives the result without parts: it throws, and the job it
\* still holds becomes failed with the message of that result
EmptyResultFails ==
  \A j \in JobIds :
    (eng.job = j /\ eng.pc = "done" /\ eng.result = "empty"
       /\ ~eng.delivered /\ eng'.delivered) =>
      /\ tpc'[j] = "idle"
      /\ returnvalue'[j] = returnvalue[j]
      /\ state'[j] # "completed"
      /\ Held(j) => state'[j] = "failed" /\ failedReason'[j] = EmptyMsg
      /\ ~Held(j) => state'[j] = state[j] /\ failedReason'[j] = failedReason[j]

C16_MemoryMapping ==
  \A j \in JobIds :
    (eng.job = j /\ eng.delivered /\ eng.result = "failed"
       /\ (Includes(eng.error, OutOfBoundsMsg) \/ Includes(eng.error, "RangeError"))
       /\ state[j] = "failed" /\ failedReason[j] \notin {TimeoutMsg, ForceMsg})
      => /\ failedReason[j] = FriendlyMsg
         /\ ~Includes(failedReason[j], OutOfBoundsMsg)

\* the input is a text file with a vertex line of other than three numbers
Malformed(f) ==
  /\ f.length # 80 + 4 + f.count * 50
  /\ \E i \in 1..Len(f.lines) :
       f.lines[i].kind = "vertex" /\ Len(f.lines[i].coords) # 3

IsMesh(m) == "vertices" \in DOMAIN m

\* ---- C17: decoding an ASCII STL in which some vertex line carries fewer or
\* more than three numbers fails; no mesh is returned for such a file.
C17_InvalidFormat ==
  (codec.pc \in {"decoded", "encoded", "again"} /\ Malformed(codec.file))
    => ~IsMesh(codec.mesh)

\* the triangles of a mesh with the coordinates of their vertices
Resolved(m) ==
  [i \in 1..Len(m.triangles) |-> m.vertices[m.triangles[i] + 1]]

\* how often vertex v stands in the vertex table of m
Occurrences(m, v) ==
  Cardinality({i \in 1..Len(m.vertices) : m.vertices[i] = v})

\* ---- C18: decoding the binary encoding of a decoded mesh m yields a mesh
\* with the same vertex table (up to the order of the vertices), the same
\* triangles and the same bounds as m.
C18_RoundTrip ==
  codec.pc = "again" =>
    /\ Len(codec.again.vertices) = Len(codec.mesh.vertices)
    /\ \A i \in 1..Len(codec.mesh.vertices) :
         Occurrences(codec.again, codec.mesh.vertices[i])
           = Occurrences(codec.mesh, codec.mesh.vertices[i])
    /\ Resolved(codec.again) = Resolved(codec.mesh)
    /\ codec.again.bounds = codec.mesh.bounds

PublishedAt(p) ==
  CASE p \in {"ckpt2", "process"} -> 10
    [] p \in {"ckpt3", "upload"} -> 20
    [] p = "zip" -> 90
    [] p = "finalize" -> 95

\* the percent of each Split job is that of the position of its processor
ProgressFollowsProcessor ==
  \A j \in SplitJobs :
    /\ progress[j] \in {0, 10, 20, 75, 90, 95}
    /\ tpc[j] \notin {"idle", "ckpt1", "download"} => progress[j] = PublishedAt(tpc[j])
    /\ state[j] = "completed" => progress[j] = 95

\* the percent of a Split job decreases only when the job, re-queued after a
\* stall, is processed again and its processor publishes 10
ProgressDecrease ==
  \A j \in SplitJobs :
    progress'[j] < progress[j] =>
      /\ stalledCounter[j] >= 1
      /\ tpc[j] = "download"
      /\ progress'[j] = 10

C20_QueuePosition ==
  (posReq.answer.status = 200 /\ posReq.answer.state = "waiting") =>
    /\ posReq.answer.totalWaiting = Len(posReq.waitingJobs)
    /\ posReq.answer.position >= 1
    /\ posReq.answer.position <= posReq.answer.totalWaiting
    /\ posReq.waitingJobs[posReq.answer.position] = posReq.id
    /\ posReq.answer.estimatedWaitTime >= 0

\* ---- C21: a POST /api/process whose dimensions.x, .y or .z is missing,
\* zero or negative is answered 400, and no job is added to the queue for it.
NotPositive(r, k) == k \notin DOMAIN r \/ r[k] <= 0

C21_Validation ==
  (/\ post.pc = "done"
   /\ "dimensions" \in DOMAIN post.body
   /\ \E k \in {"x", "y", "z"} : NotPositive(post.body.dimensions, k))
    => post.status = 400 /\ post.jobId = 0

\* ---- C22: a completed job is kept in the broker until its retention
\* boundary (48 hours after it finished) and disappears at that boundary; a
\* failed job disappears at 7 times the completed boundary; the runtime
\* removes neither earlier.
RetentionBoundary(j) ==
  IF ret.jobs[j].in = "failed" THEN 7 * CompletedAge ELSE CompletedAge

C22_Retention ==
  \A j \in RetJobs :
    ret.jobs[j].in # "none"
      => (ret.jobs[j].present <=> ret.now < ret.jobs[j].at + RetentionBoundary(j))

\* ---- C23: on every path through splitSTL, including the path where the
\* status of the input solid is not 'NoError', delete is called at most once
\* on each kernel solid.
C23_ExactlyOnce == ~eng.doubleDelete

\* ---- C24: during hole carving at most one cylinder and at most one trial
\* solid are live for the candidate under evaluation, and both are released
\* (or the trial is adopted as the working solid) before the next candidate's
\* cylinder is created; also for a borderline candidate.
C24_ReleaseDiscipline ==
  eng.lastEval.axis # "none"
    => /\ eng.lastEval.cylinders <= 1
       /\ eng.lastEval.trials <= 1
       /\ eng.lastEval.unreleased = 0

\* ---- C27: on every path through splitSTL no kernel operation is invoked
\* on a solid after it was released: the working solid is live whenever a
\* probe, a candidate evaluation or a cell intersection uses it, and the
\* pristine solid is not released before the final cleanup.
C27_NoUseAfterRelease ==
  /\ ~eng.useAfterDelete
  /\ eng.pc \in {"probe", "cand", "cells"}
       => eng.manifold = "live" /\ eng.manifoldWithHoles \in {"orig", "own"}
  /\ eng.manifold = "deleted" => eng.pc = "done"

\* the vertices of the table of m that a triangle refers to
Referenced(m) ==
  {m.vertices[m.triangles[i] + 1] : i \in 1..Len(m.triangles)}

IndicesInRange(m) ==
  \A i \in 1..Len(m.triangles) :
    m.triangles[i] >= 0 /\ m.triangles[i] < Len(m.vertices)

KeysDistinct(m) ==
  \A i, k \in 1..Len(m.vertices) :
    i # k => KeyOf(m.vertices[i]) # KeyOf(m.vertices[k])

\* the bounds are the minimum and maximum over the referenced vertices (the
\* initial bounds when no vertex is referenced)
BoundsTight(m) ==
  \A a \in 1..3 :
    IF Referenced(m) = {}
      THEN m.bounds.min[a] = Infinity /\ m.bounds.max[a] = -Infinity
      ELSE /\ m.bounds.min[a] = SetMin({v[a] : v \in Referenced(m)})
           /\ m.bounds.max[a] = SetMax({v[a] : v \in Referenced(m)})

\* ---- C25: for every mesh returned by the decoder (binary, or ASCII
\* including files with a facet closed after other than three vertices),
\* every triangle index is smaller than the number of vertices, no two
\* vertices of the table share a 6-decimal key, and the bounds equal the
\* component-wise minimum and maximum over the referenced vertices.
C25_MeshInvariants ==
  codec.pc \in {"decoded", "encoded", "again"} =>
    /\ IndicesInRange(codec.mesh)
    /\ KeysDistinct(codec.mesh)
    /\ BoundsTight(codec.mesh)

\* the processor invocation of job j ends in this step by returning or
\* throwing (its worker process goes on)
ProcessorEnds(j) ==
  /\ tpc[j] # "idle" /\ tpc'[j] = "idle"
  /\ worker'[tworker[j]] # "exited"

\* worker w exits in this step through the restart signal (an exit that is
\* not counted as a kill of the process)
ShutsDown(w) ==
  /\ worker[w] # "exited" /\ worker'[w] = "exited"
  /\ used' = used

\* ---- C26: whenever a Split or Repair processor invocation ends (returns or
\* throws), and whenever the worker shuts down through the restart signal,
\* the working directory of every job that worker had started no longer
\* exists.
C26_WorkingDirectory ==
  [][/\ \A j \in JobIds : ProcessorEnds(j) => <<tworker[j], j>> \notin wdirs'
     /\ \A w \in Workers : ShutsDown(w) => \A j \in JobIds : <<w, j>> \notin wdirs']_vars

\* the elements of a sequence
Range(q) == {q[i] : i \in 1..Len(q)}

\* ---- C28: whenever a Split job is in state completed, every part listed in
\* its result has been uploaded to the results bucket under {jobId}/{part
\* name} and {jobId}/all-parts.zip has been uploaded, and the ZIP was built
\* from exactly the emitted part files while the working directory existed.
C28_CompletedStored ==
  \A j \in SplitJobs :
    state[j] = "completed" =>
      /\ store.returned[j] # <<>>
      /\ \A section \in Range(store.returned[j]) :
           PartObject(j, section) \in store.objects
      /\ ZipObject(j) \in store.objects
      /\ store.zip[j].from = store.returned[j]
      /\ store.zip[j].onDisk

\* a Split job completed with a result of two parts or more
C28_Witness ==
  \E j \in SplitJobs :
    /\ state[j] = "completed"
    /\ Len(store.returned[j]) >= 2

\* ---- C29: when several worker processes poll the same broker, one restart
\* signal makes every one of them exit; no worker keeps running because
\* another worker read and deleted the key first.
C29_RestartAll ==
  fleet.deleted => \A w \in Fleet : fleet.got[w]

\* the hole diameter is in [1, 5] mm
DiameterInRange == gate.holeRadius * 2 >= 60 /\ gate.holeRadius * 2 <= 300

\* ---- C30: for every hole diameter in [1, 5] mm and every section rectangle
\* that passes the size gate, every candidate of the ladder (corners, centre,
\* edge midpoints, one-third points) passes isHoleSafe: the boundary safety
\* gate never discards a candidate.
C30_GateNeverDiscards ==
  (GateEvaluated /\ DiameterInRange) => gate.last.safe

\* all thirteen candidates of a dense ladder were evaluated for the 5 mm hole
C30_Witness ==
  /\ DiameterInRange
  /\ gate.holeRadius = 150
  /\ gate.spacing = "dense"
  /\ gate.k = 14
  /\ gate.last.safe

====
